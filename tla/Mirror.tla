------------------------------- MODULE Mirror -------------------------------
(***************************************************************************)
(* What a telemetry link promises, without packets, buffers or restarts: a *)
(* device publishes one version of its state after the other, and a mirror *)
(* shows them. The mirror may skip versions and may show something that is *)
(* no version at all, but it knows when what it shows can be trusted, and  *)
(* it never goes back.                                                     *)
(***************************************************************************)
EXTENDS Naturals, Sequences

VARIABLES
    published,  \* the versions published so far
    version,    \* the version the mirror has got to, 0 at first
    trusted,    \* whether shown is that version
    shown       \* what the mirror shows

mirrorVars == <<published, version, trusted, shown>>

MirrorInit ==
    /\ published = <<>>
    /\ version = 0
    /\ trusted = FALSE

Publish ==
    /\ Len(published') = Len(published) + 1
    /\ SubSeq(published', 1, Len(published)) = published
    /\ UNCHANGED <<version, trusted, shown>>

Follow ==
    /\ version' \in version..Len(published)
    /\ trusted' \in BOOLEAN
    /\ trusted' => version' > 0 /\ shown' = published[version']
    /\ UNCHANGED published

MirrorSpec == MirrorInit /\ [][Publish \/ Follow]_mirrorVars
=============================================================================
