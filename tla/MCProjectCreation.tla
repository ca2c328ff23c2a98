------------------------- MODULE MCProjectCreation -------------------------
(* Two attempts for two request ids with two inputs. *)
EXTENDS ProjectCreation

CONSTANTS a1, a2, id1, id2, d1, d2

TwoAttempts == {a1, a2}
TwoIds == {id1, id2}
TwoDigests == {d1, d2}
=============================================================================
