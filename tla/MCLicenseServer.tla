-------------------------- MODULE MCLicenseServer --------------------------
(* Model values and symmetry for checking LicenseServer with TLC.          *)
EXTENDS LicenseServer, TLC

Symmetry == Permutations(Device) \cup Permutations(License) \cup Permutations(Request)
              \cup Permutations(Mail) \cup Permutations(Secret)
=============================================================================
