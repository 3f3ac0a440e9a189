--------------------------- MODULE MCUSBTransport ---------------------------
EXTENDS USBTransport
=============================================================================
