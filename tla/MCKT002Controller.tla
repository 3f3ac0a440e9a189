------------------------- MODULE MCKT002Controller -------------------------
EXTENDS KT002Controller

MCTwoVoltages == {PD(5), PD(20)}
MCPingAndVoltage == {PD(20), Ping}

MCLineApis == WaitsForLine
MCAllApis == Api

\* One line of each sort: accepted, of an error, of one that is said twice.
MCKinds == {"OK_PD", "NO_PD_SOURCE", "ERROR_LUA_NO_PDO", "PONG", "UNKNOWN_COMMAND"}
=============================================================================
