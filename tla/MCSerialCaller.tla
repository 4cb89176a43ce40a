--------------------------- MODULE MCSerialCaller ---------------------------
EXTENDS SerialCaller
=============================================================================
