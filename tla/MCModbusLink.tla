---------------------------- MODULE MCModbusLink ----------------------------
EXTENDS ModbusLink
=============================================================================
