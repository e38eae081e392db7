------------------------------- MODULE Export -------------------------------
(***************************************************************************)
(* Exporting a subtree (app.go: runExport, collectSubtree): a background   *)
(* task that lists the tree level by level, reads every entry on its own   *)
(* and then writes a file. Meanwhile the operator may cancel or            *)
(* disconnect, the connection may be lost, and others may create the file. *)
(***************************************************************************)
EXTENDS Naturals, Sequences, SequencesExt, FiniteSets

CONSTANTS Node,         \* entries
          Root,         \* the one exported
          Kids,         \* Kids[n]: the entries under n, as the server lists them
          Unreadable,   \* entries the bind cannot read
          Limit,        \* Profile.Limit: the page size
          Paging        \* the server supports paged results

ASSUME ExportAssumption ==
    /\ Root \in Node /\ Unreadable \subseteq Node
    /\ Kids \in [Node -> Seq(Node)]
    /\ \A n \in Node : Root \notin Range(Kids[n])
    /\ Limit \in Nat \ {0} /\ Paging \in BOOLEAN

VARIABLES
    pc,         \* the next call: "pop", "entry", "children", "create",
                \* "write", "done"
    queue,      \* entries to visit
    visited,
    out,        \* entries read, in order
    current,    \* the entry being read or listed
    offset,     \* where its next page starts: what the cookie stands for
    file,       \* the file: "absent", "other" (not ours), "partial", "whole"
    result,     \* what the task came back with: "none", "ok", "failed"
    aborted,    \* its context is
    linkUp,     \* the connection works
    missed      \* entries whose read failed

exportVars == <<pc, queue, visited, out, current, offset, file, result,
                aborted, linkUp, missed>>

InitExport ==
    /\ pc = "pop"
    /\ queue = <<Root>> /\ visited = {} /\ out = <<>>
    /\ current = Root /\ offset = 0
    /\ file \in {"absent", "other"}
    /\ result = "none"
    /\ aborted = FALSE /\ linkUp = TRUE
    /\ missed = {}

-----------------------------------------------------------------------------
FailExport ==
    /\ pc' = "done"
    /\ result' = "failed"

(* The head of collectSubtree's loop.                                      *)
Pop ==
    /\ pc = "pop" /\ queue # <<>>
    /\ IF aborted
       THEN FailExport /\ UNCHANGED <<queue, visited, current>>
       ELSE /\ queue' = Tail(queue)
            /\ current' = Head(queue)
            /\ visited' = visited \cup {Head(queue)}
            /\ pc' = IF Head(queue) \in visited THEN "pop" ELSE "entry"
            /\ UNCHANGED result
    /\ UNCHANGED <<out, offset, file, aborted, linkUp, missed>>

Collected ==
    /\ pc = "pop" /\ queue = <<>>
    /\ pc' = "create"
    /\ UNCHANGED <<queue, visited, out, current, offset, file, result,
                   aborted, linkUp, missed>>

(* Directory.Entry. A call may still succeed once it is cancelled.         *)
ReadEntry ==
    /\ pc = "entry"
    /\ linkUp /\ current \notin Unreadable
    /\ out' = Append(out, current)
    /\ offset' = 0
    /\ pc' = "children"
    /\ UNCHANGED <<queue, visited, current, file, result, aborted, linkUp, missed>>

(* Whatever the reason, the entry is skipped, with everything beneath it.  *)
SkipEntry ==
    /\ pc = "entry"
    /\ aborted \/ ~linkUp \/ current \in Unreadable
    /\ missed' = missed \cup {current}
    /\ pc' = "pop"
    /\ UNCHANGED <<queue, visited, out, current, offset, file, result,
                   aborted, linkUp>>

(* Directory.Children: one page. An entry that has appeared ahead of it    *)
(* pushes the last one of the page before into this one.                   *)
Upto(from) == IF from + Limit < Len(Kids[current]) THEN from + Limit
              ELSE Len(Kids[current])

(* A slip: one page is taken for all.                                      *)
ReadFirstPageOnly ==
    /\ pc = "children" /\ linkUp
    /\ queue' = queue \o SubSeq(Kids[current], 1, Upto(0))
    /\ pc' = "pop"
    /\ UNCHANGED <<visited, out, current, offset, file, result, aborted,
                   linkUp, missed>>

ReadChildren ==
    /\ pc = "children" /\ linkUp
    /\ \E from \in {offset} \cup (IF offset > 0 THEN {offset - 1} ELSE {}) :
          queue' = queue \o SubSeq(Kids[current], from + 1, Upto(offset))
    /\ offset' = Upto(offset)
    /\ pc' = IF Paging /\ Upto(offset) < Len(Kids[current]) THEN "children" ELSE "pop"
    /\ UNCHANGED <<visited, out, current, file, result, aborted, linkUp, missed>>

(* The server refuses, or cannot be asked.                                 *)
FailChildren ==
    /\ pc = "children"
    /\ FailExport
    /\ UNCHANGED <<queue, visited, out, current, offset, file, aborted,
                   linkUp, missed>>

(* os.OpenFile: O_CREATE | O_EXCL, then the header.                        *)
Create ==
    /\ pc = "create"
    /\ \/ /\ file = "absent"
          /\ file' = "partial"
          /\ pc' = "write" /\ UNCHANGED result
       \/ FailExport /\ UNCHANGED file
    /\ UNCHANGED <<queue, visited, out, current, offset, aborted, linkUp, missed>>

(* ldif.WriteEntries; a disk that fills up leaves what it has.             *)
WriteEntries ==
    /\ pc = "write"
    /\ pc' = "done"
    /\ \/ file' = "whole" /\ result' = "ok"
       \/ result' = "failed" /\ UNCHANGED file
    /\ UNCHANGED <<queue, visited, out, current, offset, aborted, linkUp, missed>>

-----------------------------------------------------------------------------
(* Esc, or a disconnect, which also takes the connection away.             *)
CancelExport ==
    /\ pc # "done" /\ ~aborted
    /\ aborted' = TRUE
    /\ linkUp' \in {linkUp, FALSE}
    /\ UNCHANGED <<pc, queue, visited, out, current, offset, file, result, missed>>

LoseConnection ==
    /\ pc # "done" /\ linkUp
    /\ linkUp' = FALSE
    /\ UNCHANGED <<pc, queue, visited, out, current, offset, file, result,
                   aborted, missed>>

CreateElsewhere ==
    /\ file = "absent"
    /\ file' = "other"
    /\ UNCHANGED <<pc, queue, visited, out, current, offset, result, aborted,
                   linkUp, missed>>

Goroutine ==
    \/ Pop \/ Collected \/ ReadEntry \/ SkipEntry \/ ReadChildren
    \/ FailChildren \/ Create \/ WriteEntries

NextExport == Goroutine \/ CancelExport \/ LoseConnection \/ CreateElsewhere

SpecExport == InitExport /\ [][NextExport]_exportVars

-----------------------------------------------------------------------------
Faultless == ~aborted /\ linkUp

(* The entries an export has to hold: those that can be reached from the   *)
(* root through entries that can be read.                                  *)
ClosedUnderKids(S) ==
    /\ Root \in S \cup Unreadable
    /\ \A n \in S : Range(Kids[n]) \subseteq S \cup Unreadable
Exportable == {n \in Node \ Unreadable : \A S \in SUBSET Node : ClosedUnderKids(S) => n \in S}

TypeOKExport ==
    /\ pc \in {"pop", "entry", "children", "create", "write", "done"}
    /\ queue \in Seq(Node) /\ visited \subseteq Node /\ out \in Seq(Node)
    /\ current \in Node /\ offset \in Nat
    /\ pc = "children" => offset <= Len(Kids[current])
    /\ file \in {"absent", "other", "partial", "whole"}
    /\ result \in {"none", "ok", "failed"}
    /\ aborted \in BOOLEAN /\ linkUp \in BOOLEAN /\ missed \subseteq Node

(* An export that reports success with nothing gone wrong holds every      *)
(* entry it can reach, once, whatever the paging does.                     *)
ExportIsComplete ==
    Paging /\ Faultless /\ result = "ok" => IsInjective(out) /\ Range(out) = Exportable

(* "what makes the export usable as input": an entry comes after the entry *)
(* it is under.                                                            *)
ParentsComeFirst ==
    \A i \in DOMAIN out : out[i] # Root =>
        \E j \in 1 .. i - 1 : out[i] \in Range(Kids[out[j]])

(* app.go:1505: walking the subtree is done "so a server without paging    *)
(* still exports fully".                                                   *)
ExportsFullyWithoutPaging ==
    Faultless /\ result = "ok" => Range(out) = Exportable

(* app.go:1611: what is skipped is "an entry the bind cannot read".        *)
SkipsOnlyTheUnreadable == result = "ok" => missed \subseteq Unreadable

(* The file can be fed to an import: whole, once each, parents first.      *)
ExportIsUsable == TypeOKExport /\ ExportIsComplete /\ ParentsComeFirst
=============================================================================
