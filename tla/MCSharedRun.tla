----------------------------- MODULE MCSharedRun -----------------------------
(* Two controllers and one moderator over a panel of three.                    *)
EXTENDS SharedRun

Panel == <<"sage", "critic", "scholar">>
StartOffsets == {-1, 0, 7}
PageLimits == {-1, 2, 60}
===============================================================================
