---------------------------- MODULE MCLicensing ----------------------------
(* Small instances of the composed licensing system for TLC.               *)
EXTENDS Licensing, TLC

CONSTANTS p1, p2, d1, d2

\* one client on the second device; the owner's device is elsewhere
RequesterOnly == p1 :> d2

\* the player and the CLI on one device
SharedDevice == p1 :> d2 @@ p2 :> d2

\* the processes of SharedDevice may change places, and so may the license ids
\* left for replacements
SharedSymmetry == Permutations(Conn) \cup Permutations(License \ Issued)
=============================================================================
