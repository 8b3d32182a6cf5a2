----------------------------- MODULE DeviceIds ------------------------------
(* The device ids shared by the trust store and the streaming endpoint:    *)
(* derive_device_id of a public key, eight bytes, compared for equality.   *)
EXTENDS FiniteSets

CONSTANT Devices

ASSUME DevicesAssumption == IsFiniteSet(Devices)

=============================================================================
