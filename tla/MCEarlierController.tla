------------------------ MODULE MCEarlierController ------------------------
EXTENDS EarlierController
=============================================================================
