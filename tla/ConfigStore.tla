---------------------------- MODULE ConfigStore ----------------------------
(***************************************************************************)
(* The files PADL keeps: profiles.yaml (internal/config/profiles.go) and   *)
(* trust.yaml (trust.go), which are written alike. A Put or Delete changes *)
(* memory under the lock, and then saves without it: encode what memory    *)
(* holds, write a temporary file, rename it over the old one. Each step    *)
(* may fail, and the program may be killed between any two.                *)
(*                                                                         *)
(* Files are those of a running system: what was written before a kill is  *)
(* there after it. Store.Save encodes profiles after it has given the lock *)
(* back; here, as in TrustStore.Save, it encodes what it saw under it.     *)
(***************************************************************************)
EXTENDS SavedConfig

CONSTANTS Caller,   \* goroutines that may be in Put or Delete at once
          Torn,     \* a file that was not written to its end
          None      \* no file

ASSUME StoreAssumption == Torn \notin Contents /\ None \notin Contents /\ Torn # None

VARIABLES
    running,  \* the program is up
    pc,       \* pc[c]: where in Put or Delete caller c is
    data,     \* data[c]: what c has encoded
    temp,     \* temp[c]: c's temporary file
    litter,   \* a temporary file nobody will remove
    killed,   \* the program has been killed
    unsaved   \* the last Save to end has failed

storeVars == <<memory, file, running, pc, data, temp, litter, killed, unsaved>>

Step == {"idle", "save", "create", "write", "close", "rename", "fail", "done"}

InitStore ==
    /\ InitConfig
    /\ running = TRUE
    /\ pc = [c \in Caller |-> "idle"]
    /\ data = [c \in Caller |-> Empty]
    /\ temp = [c \in Caller |-> None]
    /\ litter = FALSE /\ killed = FALSE /\ unsaved = FALSE

-----------------------------------------------------------------------------
Goto(c, from, to) ==
    /\ running /\ pc[c] = from
    /\ pc' = [pc EXCEPT ![c] = to]

(* Put and Delete up to their unlock. (Put of a profile that does not      *)
(* validate returns at once.)                                              *)
PutOrDelete(c, i, v) ==
    /\ Goto(c, "idle", "save")
    /\ memory' = [memory EXCEPT ![i] = v]
    /\ UNCHANGED <<file, running, data, temp, litter, killed, unsaved>>

(* Save, under the read lock, and the encoding.                            *)
Encode(c) ==
    /\ Goto(c, "save", "create")
    /\ data' = [data EXCEPT ![c] = memory]
    /\ UNCHANGED <<memory, file, running, temp, litter, killed, unsaved>>

(* writeFilePrivate: MkdirAll and CreateTemp.                              *)
CreateTemp(c) ==
    /\ Goto(c, "create", "write")
    /\ temp' = [temp EXCEPT ![c] = Torn]
    /\ UNCHANGED <<memory, file, running, data, litter, killed, unsaved>>

(* Chmod and Write.                                                        *)
Write(c) ==
    /\ Goto(c, "write", "close")
    /\ temp' = [temp EXCEPT ![c] = data[c]]
    /\ UNCHANGED <<memory, file, running, data, litter, killed, unsaved>>

CloseTemp(c) ==
    /\ Goto(c, "close", "rename")
    /\ UNCHANGED <<memory, file, running, data, temp, litter, killed, unsaved>>

Rename(c) ==
    /\ Goto(c, "rename", "done")
    /\ file' = temp[c]
    /\ temp' = [temp EXCEPT ![c] = None]
    /\ UNCHANGED <<memory, running, data, litter, killed, unsaved>>

(* A slip: a failed save forgets the profiles.                             *)
FailForgetting(c) ==
    /\ running
    /\ pc[c] \in {"create", "write", "close", "rename"}
    /\ pc' = [pc EXCEPT ![c] = "fail"]
    /\ memory' = Empty
    /\ UNCHANGED <<file, running, data, temp, litter, killed, unsaved>>

(* Any call of writeFilePrivate returns an error. A write that does may    *)
(* have written some.                                                      *)
Fail(c) ==
    /\ running
    /\ pc[c] \in {"create", "write", "close", "rename"}
    /\ pc' = [pc EXCEPT ![c] = "fail"]
    /\ UNCHANGED <<memory, file, running, data, temp, litter, killed, unsaved>>

(* The deferred Remove, and the return to the caller.                      *)
Return(c) ==
    /\ running /\ pc[c] \in {"fail", "done"}
    /\ pc' = [pc EXCEPT ![c] = "idle"]
    /\ temp' = [temp EXCEPT ![c] = None]
    /\ unsaved' = (pc[c] = "fail")
    /\ data' = [data EXCEPT ![c] = Empty]
    /\ UNCHANGED <<memory, file, running, litter, killed>>

-----------------------------------------------------------------------------
(* The program ends, in whatever it was doing.                             *)
Kill ==
    /\ running
    /\ running' = FALSE /\ killed' = TRUE
    /\ pc' = [c \in Caller |-> "idle"]
    /\ litter' = (litter \/ \E c \in Caller : temp[c] # None)
    /\ temp' = [c \in Caller |-> None]
    /\ data' = [c \in Caller |-> Empty]
    /\ UNCHANGED <<memory, file, unsaved>>

(* LoadStore, LoadTrustStore: a file that is not there is an empty store.  *)
Load ==
    /\ ~running
    /\ running' = TRUE
    /\ memory' = file
    /\ unsaved' = FALSE
    /\ UNCHANGED <<file, pc, data, temp, litter, killed>>

Save(c) == Encode(c) \/ CreateTemp(c) \/ Write(c) \/ CloseTemp(c) \/ Rename(c)
           \/ Fail(c) \/ Return(c)

NextStore ==
    \/ \E c \in Caller :
          Save(c) \/ \E i \in Id, v \in Value \cup {Absent} : PutOrDelete(c, i, v)
    \/ Kill
    \/ Load

SpecStore == InitStore /\ [][NextStore]_storeVars

-----------------------------------------------------------------------------
TypeOKStore ==
    /\ memory \in Contents
    /\ file \in Contents \cup {Torn}
    /\ running \in BOOLEAN /\ litter \in BOOLEAN
    /\ killed \in BOOLEAN /\ unsaved \in BOOLEAN
    /\ pc \in [Caller -> Step]
    /\ data \in [Caller -> Contents]
    /\ temp \in [Caller -> Contents \cup {Torn, None}]

(* "a crash mid-write cannot leave a truncated config behind" (Save): at   *)
(* every instant, so also at that of a kill, the file is whole.            *)
FileIsWhole == file \in Contents

(* With one caller, as in PADL where only the UI thread saves: the file is *)
(* never anything but what memory is or was when last saved.               *)
ImplementsSavedConfig == SpecConfig

(* "It is safe for concurrent use" (Store): when every Put and Delete has  *)
(* returned and the last has not failed, the file is what memory is; a     *)
(* failure before it has been made up for.                                 *)
SavedWhenQuiet ==
    running /\ ~unsaved /\ (\A c \in Caller : pc[c] = "idle") => file = memory

(* Files beside it are left behind by a kill only.                         *)
OnlyKillsLeaveLitter == litter => killed
=============================================================================
