---------------------------- MODULE WhiteCommands ----------------------------
(***************************************************************************)
(* The White Night command line (white_cli.py) and the files it works on.  *)
(* approval, evidence and audit commands read an artifact, a chain of      *)
(* events in one JSON file, check it, add an event and write the result in *)
(* place: open and truncate, write, then print.  Nothing keeps two         *)
(* commands apart.  What the chains themselves promise is in               *)
(* ApprovalWorkflow, EvidenceCustody and AuditTrail; here an event is the  *)
(* command that added it.                                                  *)
(***************************************************************************)
EXTENDS Naturals, Sequences, SequencesExt, FiniteSets

CONSTANT WhiteRuns      \* the commands an operator, or several, start

VARIABLES
    disk,               \* disk[path]: absent, broken or a whole chain
    run                 \* run[w]: one command

whiteVars == <<disk, run>>

\* The artifact, and the bundle an export hands out.
WhitePaths == {"artifact", "bundle"}
Absent == [is |-> "absent", chain |-> <<>>]
Broken == [is |-> "broken", chain |-> <<>>]
Whole(chain) == [is |-> "whole", chain |-> chain]

WhiteInit ==
    /\ disk = [path \in WhitePaths |-> Absent]
    /\ run = [w \in WhiteRuns |->
                [op |-> "none", at |-> "none", input |-> "artifact", outputs |-> <<>>,
                 chain |-> <<>>, wrote |-> {}, before |-> {}]]

EndedRuns == {w \in WhiteRuns : run[w].at \in {"done", "error"}}

-----------------------------------------------------------------------------
\* main: create writes the artifact anew, advance (approve, reject, delegate,
\* escalate, revoke, add, transfer, append) changes it, export writes the changed case
\* where --case-output says and the bundle where --output says, inspect (status, grant,
\* verify, manifest, summary) only reads.  Outputs are options.
Outputs(op) ==
    CASE op \in {"create", "advance"} -> {<<>>, <<"artifact">>}
      [] op = "export" -> {<<>>, <<"bundle">>, <<"artifact">>, <<"artifact", "bundle">>}
      [] op = "inspect" -> {<<>>}

BeginCommand(w) ==
    /\ run[w].at = "none"
    /\ \E op \in {"create", "advance", "export", "inspect"}, input \in WhitePaths :
        \E outputs \in Outputs(op) :
            /\ input = "bundle" => op = "inspect"
            /\ run' = [run EXCEPT ![w] = [@ EXCEPT
                    !.op = op, !.input = input, !.outputs = outputs, !.before = EndedRuns,
                    !.at = IF op = "create" THEN "made" ELSE "reading",
                    !.chain = IF op = "create" THEN <<w>> ELSE <<>>]]
    /\ UNCHANGED disk

\* from_json: only a whole file loads; the chain's own rules may refuse the event.
ReadArtifact(w) ==
    LET text == disk[run[w].input]
    IN  /\ run[w].at = "reading"
        /\ \/ /\ text.is = "whole"
              /\ run' = [run EXCEPT
                    ![w].at = IF run[w].op = "inspect" THEN "printing" ELSE "made",
                    ![w].chain = IF run[w].op = "inspect" THEN text.chain
                                 ELSE Append(text.chain, w)]
           \/ run' = [run EXCEPT ![w].at = "error"]
        /\ UNCHANGED disk

\* write_text opens and truncates first.
OpenOutput(w) ==
    /\ run[w].at = "made"
    /\ run[w].outputs # <<>>
    /\ \/ /\ disk' = [disk EXCEPT ![Head(run[w].outputs)] = Broken]
          /\ run' = [run EXCEPT ![w].at = "writing"]
       \/ run' = [run EXCEPT ![w].at = "error"] /\ UNCHANGED disk

\* Then writes: over what another command wrote meanwhile, of which a tail may stay.
WriteOutput(w) ==
    LET path == Head(run[w].outputs)
    IN  /\ run[w].at = "writing"
        /\ disk' \in {[disk EXCEPT ![path] = text] : text \in
                {Whole(run[w].chain)} \cup
                (IF Len(disk[path].chain) >= Len(run[w].chain)
                 THEN {[disk[path] EXCEPT !.is = "broken"]} ELSE {})}
        /\ run' = [run EXCEPT ![w].at = "made", ![w].outputs = Tail(@),
                              ![w].wrote = @ \cup {path}]

\* Mutant: a write that fails does not stop the command.
WriteOutputFailsUnseen(w) ==
    /\ run[w].at = "writing"
    /\ run' = [run EXCEPT ![w].at = "made", ![w].outputs = Tail(@),
                          ![w].wrote = @ \cup {Head(run[w].outputs)}]
    /\ UNCHANGED disk

\* A full disk, or the end of the process.
WriteOutputFails(w) ==
    /\ run[w].at = "writing"
    /\ run' = [run EXCEPT ![w].at = "error"]
    /\ UNCHANGED disk

\* The result is printed, and that may fail too; exit status 0 or 2.
PrintResult(w) ==
    /\ \/ run[w].at = "printing"
       \/ run[w].at = "made" /\ run[w].outputs = <<>>
    /\ \E at \in {"done", "error"} : run' = [run EXCEPT ![w].at = at]
    /\ UNCHANGED disk

WhiteNext ==
    \E w \in WhiteRuns :
        \/ BeginCommand(w) \/ ReadArtifact(w) \/ OpenOutput(w) \/ WriteOutput(w)
        \/ WriteOutputFails(w) \/ PrintResult(w)

WhiteSpec == WhiteInit /\ [][WhiteNext]_whiteVars

-----------------------------------------------------------------------------
\* Neither command had ended when the other began.
Overlap(v, w) == v # w /\ v \notin run[w].before /\ w \notin run[v].before

\* A command that ran alone leaves what it reports.  The event of a command that
\* ended well is in the file it wrote unless another one overlapped with it there or
\* created the artifact anew; no chain shows events against the order of the commands
\* or twice; a file is broken only while it is written, after a write that failed
\* or when writers overlapped; and a bundle ends with its export (white_cli.py
\* _emit, _mutate_approval, _evidence_command, _audit_command).
LoneCommandsKeepTheirEvents ==
    /\ \A w \in WhiteRuns, path \in WhitePaths :
        LET others == {v \in WhiteRuns \ {w} : path \in run[v].wrote \/ run[v].at = "writing"}
        IN  /\ /\ run[w].at = "done" /\ path \in run[w].wrote
               /\ disk[path].is = "whole"
               /\ path = "artifact"
               => \/ w \in ToSet(disk[path].chain)
                  \/ \E v \in others : Overlap(v, w) \/ run[v].op = "create"
            /\ run[w].at = "done" /\ path \in run[w].wrote /\ disk[path].is # "whole" =>
                \E v \in others \cup {v \in WhiteRuns : run[v].at = "error"} : v # w
    /\ \A path \in WhitePaths :
        LET chain == disk[path].chain
        IN  /\ IsInjective(chain)
            /\ \A i, j \in DOMAIN chain : i < j => chain[j] \notin run[chain[i]].before
            /\ disk[path].is = "broken" =>
                \/ \E w \in WhiteRuns : run[w].at \in {"writing", "error"}
                \/ \E v, w \in WhiteRuns :
                    Overlap(v, w) /\ path \in run[v].wrote \cap run[w].wrote
    /\ disk["bundle"].is = "whole" => run[Last(disk["bundle"].chain)].op = "export"

=============================================================================
