-------------------------------- MODULE Lfs --------------------------------
(***************************************************************************)
(* packinstall-lfs as a whole: main() runs one command per process, and    *)
(* the commands of a session follow each other.  What `create` packages    *)
(* can be handed to `install` and `info` like an archive of                *)
(* `create-legacy`, but makepkg names its members without the leading      *)
(* "./" that both look for.                                                *)
(***************************************************************************)
EXTENDS LfsStore, LfsCreate

CONSTANT Created    \* the package that `create` makes
ASSUME CreatedAssumption == Created \in Pkgs

LfsInit == StoreInit /\ CreateInit

\* A create that has finished leaves an archive whose members have no "./".
Arrives ==
    IF step' = "done" /\ step # "done" /\ place' # None
    THEN archive' = [archive EXCEPT ![Created] =
                        [state |-> "whole", dot |-> FALSE, build |-> 1]]
    ELSE archive' = archive

LfsNext ==
    \/ /\ cmd = Idle /\ CreateNext /\ Arrives
       /\ UNCHANGED <<staged, root, db, manifest, cmd, exit, cut, partial, cmds, faults>>
    \/ step = "idle" /\ StoreNext /\ UNCHANGED createVars

LfsSpec == LfsInit /\ [][LfsNext]_<<storeVars, createVars>>
=============================================================================
