------------------------------ MODULE Hardware ------------------------------
(***************************************************************************)
(* The bus and the flash array of a drive, and its telemetry EEPROM.  Bus  *)
(* and array share nothing but the event that the controller carries from  *)
(* one to the other, and that controller is a stub at this commit; the     *)
(* EEPROM has its own pins.  So a behaviour exercises one of the three.    *)
(***************************************************************************)
EXTENDS Bus, SsdArray, Eeprom

VARIABLE part

vars == <<busVars, arrayVars, eepromVars, part>>

ASSUME OneChannelPerPackage == NumChannels = SsdSize /\ NumDies = PackageSize

Init == BusInit /\ ArrayInit /\ EepromInit /\ part \in {"bus", "array", "eeprom"}

BusStep == part = "bus" /\ BusNext /\ UNCHANGED <<arrayVars, eepromVars, part>>
ArrayStep == part = "array" /\ ArrayNext /\ UNCHANGED <<busVars, eepromVars, part>>
EepromStep == part = "eeprom" /\ EepromNext /\ UNCHANGED <<busVars, arrayVars, part>>

Next == BusStep \/ ArrayStep \/ EepromStep

Spec == Init /\ [][Next]_vars
=============================================================================
