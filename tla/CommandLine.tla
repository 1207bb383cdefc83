----------------------------- MODULE CommandLine -----------------------------
(***************************************************************************)
(* The command line (cli crate, main.rs) over the registry.  Its commands  *)
(* are calls of the registry, but for `model pull`: it downloads weights,  *)
(* imports them, and then may download a tokenizer and attach it, with     *)
(* nothing that undoes the import when a later step fails or the process   *)
(* is killed.                                                              *)
(***************************************************************************)
EXTENDS Registry

CONSTANT
    PullArgs    \* arguments of a pull: [id, weights, details, tokenizer]

VARIABLE
    command     \* command[p]: the pull that a process is in, or None

commandVars == <<vars, command>>

(* weights and tokenizer: where the hub's cache puts the files asked for;  *)
(* tokenizer is None without --tokenizer-file.                             *)
ASSUME PullAssumption ==
    PullArgs \subseteq [id : ModelId, weights : Path, details : Details,
                        tokenizer : Path \cup {None}]

(* A pull on its way: its arguments, and the call it is before or in. *)
Pull ==
    [step : {"import", "importing", "attach", "attaching"}, id : ModelId,
     weights : Path, details : Details, tokenizer : Path \cup {None}]

ASSUME NoPullAssumption == None \notin Pull
-----------------------------------------------------------------------------
CommandInit == Init /\ command = [p \in Proc |-> None]

(* The operator's discipline again: a pull writes from end to end. *)
NotPulled(p, id) ==
    Exclusive => \A q \in Proc \ {p} : command[q] # None => command[q].id # id

(* HuggingFaceHub.download: what is in the hub's cache already is not      *)
(* fetched again.                                                          *)
Download(path) ==
    \E c \in Content :
        file' = [file EXCEPT ![path] = IF @ = Absent THEN c ELSE @]

At(p, step) == command[p] # None /\ command[p].step = step /\ pc[p] = "idle"

Enter(p, step) == command' = [command EXCEPT ![p].step = step]
End(p) == command' = [command EXCEPT ![p] = None]

(* The weights are downloaded, or cannot be and the command fails; before  *)
(* that a pull has changed nothing.                                        *)
PullStart(p, args) ==
    /\ command[p] = None
    /\ pc[p] = "idle"
    /\ MayWrite(p, args.id) /\ NotPulled(p, args.id)
    /\ \/ /\ Download(args.weights)
          /\ command' = [command EXCEPT ![p] =
                [step |-> "import", id |-> args.id, weights |-> args.weights,
                 details |-> args.details, tokenizer |-> args.tokenizer]]
          /\ UNCHANGED result
       \/ /\ result' = [result EXCEPT ![p] = "HuggingFaceHub"]
          /\ UNCHANGED <<file, command>>
    /\ UNCHANGED <<inode, name, temp, pc, draft, handle, todo>>

PullImport(p) ==
    /\ At(p, "import")
    /\ ImportStart(p, command[p].id, command[p].weights, command[p].details)
    /\ Enter(p, "importing")

(* `?` on the import or on attach_tokenizer. *)
PullFails(p) ==
    /\ At(p, "importing") \/ At(p, "attaching")
    /\ result[p] # "ok"
    /\ End(p)
    /\ UNCHANGED vars

(* The tokenizer's download: with it the pull goes on, without it it ends. *)
PullTokenizer(p) ==
    /\ At(p, "importing")
    /\ result[p] = "ok"
    /\ command[p].tokenizer # None
    /\ \/ Download(command[p].tokenizer) /\ Enter(p, "attach")
          /\ UNCHANGED result
       \/ End(p) /\ result' = [result EXCEPT ![p] = "HuggingFaceHub"]
          /\ UNCHANGED file
    /\ UNCHANGED <<inode, name, temp, pc, draft, handle, todo>>

PullAttach(p) ==
    /\ At(p, "attach")
    /\ AttachStart(p, command[p].id, command[p].tokenizer)
    /\ Enter(p, "attaching")

(* A pull that looks at the result of its first call only. *)
PullEndsUnchecked(p) ==
    /\ \/ At(p, "importing") /\ command[p].tokenizer = None /\ result[p] = "ok"
       \/ At(p, "attaching")
    /\ End(p)
    /\ result' = [result EXCEPT ![p] = "ok"]
    /\ UNCHANGED <<file, inode, name, temp, pc, draft, handle, todo>>

PullEnds(p) ==
    /\ \/ At(p, "importing") /\ command[p].tokenizer = None
       \/ At(p, "attaching")
    /\ result[p] = "ok"
    /\ End(p)
    /\ UNCHANGED vars

(* Any other command or program, and the inside of a pull's calls. *)
Call(p) ==
    /\ command[p] # None => pc[p] # "idle"
    /\ Operation(p)
    /\ pc[p] = "idle" /\ pc'[p] \in Writing => NotPulled(p, draft'[p].id)
    /\ UNCHANGED command

(* A process is killed: inside a pull's calls, between them, or anywhere   *)
(* else.                                                                   *)
Killed(p) == Crash(p) /\ End(p)

CommandNext ==
    \/ \E p \in Proc :
        \/ Call(p) \/ PullImport(p) \/ PullTokenizer(p) \/ PullAttach(p)
        \/ PullFails(p) \/ PullEnds(p) \/ Killed(p)
        \/ \E args \in PullArgs : PullStart(p, args)
    \/ \E path \in MutablePath : ChangeFile(path) /\ UNCHANGED command

CommandSpec == CommandInit /\ [][CommandNext]_commandVars
-----------------------------------------------------------------------------
AsPulled(pull, manifest) ==
    /\ manifest \in Manifest
    /\ manifest.id = pull.id
    /\ manifest.weights = pull.weights
    /\ manifest.details = pull.details

(* The rename of a pull's import, and that of its attachment, are done. *)
Renamed(p) == pc[p] = "renamed" \/ (pc[p] = "idle" /\ result[p] = "ok")

ImportDone(p) ==
    \/ command[p].step = "importing" /\ Renamed(p)
    \/ command[p].step \in {"attach", "attaching"}

AttachDone(p) == command[p].step = "attaching" /\ Renamed(p)

(* However a pull ends (it returns, fails at any of its steps or is killed *)
(* at any point) from its import's rename on the model is the one it was   *)
(* asked for, with the tokenizer asked for from its attachment's rename on *)
(* and with none before, never with that of an earlier model.  One that    *)
(* reports success has done both, or the import if no tokenizer was asked  *)
(* for.                                                                    *)
PullReport ==
    \A p \in Proc :
        command[p] # None /\ command'[p] = None =>
            /\ ImportDone(p) =>
                   \A s \in {ManifestStem(command[p].id)} :
                       /\ AsPulled(command[p], Stored(s)')
                       /\ Stored(s)'.tokenizer =
                              IF AttachDone(p) THEN command[p].tokenizer ELSE None
            /\ result'[p] = "ok" =>
                   /\ ImportDone(p)
                   /\ command[p].tokenizer # None => AttachDone(p)

PullReportsWhatItLeft == [][PullReport]_commandVars
=============================================================================
