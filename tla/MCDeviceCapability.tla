------------------------- MODULE MCDeviceCapability -------------------------
(* Model-checking instance of DeviceCapability, with the composite masks  *)
(* of MCAssetFlags.                                                        *)
EXTENDS DeviceCapability, MCAssetFlags
=============================================================================
