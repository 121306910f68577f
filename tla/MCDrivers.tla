------------------------------ MODULE MCDrivers -----------------------------
(* Every driver with its readers; cards of one or both protocols, with and    *)
(* without TA1, of different voltages; commands below and above the limits.   *)
EXTENDS Drivers

MCShapes == {[lc |-> 0, le |-> 0], [lc |-> 1, le |-> 0], [lc |-> 0, le |-> 3],
             [lc |-> 1, le |-> 1], [lc |-> 3, le |-> 0]}
Card(protos, ta1, tc1, volt, size) ==
    [protos |-> protos, ta1 |-> ta1, tc1 |-> tc1, volt |-> volt, size |-> size]
MCCards == {Card(<<"T0", "T1">>, FALSE, FALSE, "3V", 0), Card(<<"T1">>, TRUE, TRUE, "5V", 0),
            Card(<<"I2C">>, FALSE, FALSE, "5V", 3)}
MCDrivers == {"gempc", "ccid", "kaan", "cyberjack"}
OnlyGbp == {"gempc"}
MCLengths == {1, 4}
MCLate == {"ccid"}
Reader(features) == [features |-> features, protos |-> {"T0", "T1"}, volts |-> {"5V", "3V"}]
ReaderT1(features) == [features |-> features, protos |-> {"T1"}, volts |-> {"5V", "3V"}]
MCCcidReaders ==
    {Reader({"clock", "rate"}), Reader({"clock", "rate", "tpdu", "atrparse", "activate", "voltage"}),
     ReaderT1({"clock", "rate", "tpdu", "pps", "activate"}), Reader({"clock", "rate", "apdu", "activate"}), Reader({"tpdu", "params"})}
=============================================================================
