---------------------------- MODULE ModelRegistry ----------------------------
(***************************************************************************)
(* The registry of data models: modeling/registry.py and the requests of   *)
(* endpoints/modeling_registry.py.                                         *)
(*                                                                         *)
(* A dictionary in memory, loaded from a JSON file when it is empty, is    *)
(* written whole after each registration: to a temporary file, which then  *)
(* takes the registry's place.  The temporary file has one name for all    *)
(* threads, so a thread may hold it open when another has moved it.        *)
(***************************************************************************)
EXTENDS Naturals

CONSTANTS
  Names, Workers,
  None, Torn,   \* no file; a file that is not the whole of a dictionary
  MaxRequests, MaxCrashes, MaxFaults

VARIABLES
  memory,       \* _MODEL_REGISTRY
  disk, tmp,    \* the registry's file and the temporary one
  worker, requests, crashes,
  faults,       \* how often the disk was full
  answered,     \* history: the last registration of a name that was answered
  overlapped    \* history: two requests have been handled at once

vars == <<memory, disk, tmp, worker, requests, crashes, faults, answered, overlapped>>

\* The registration a name's model comes from, 0 for none.
Models == [Names -> 0..MaxRequests]
NoModels == [n \in Names |-> 0]
Texts == Models \cup {None, Torn}

\* MCServices assumes this of the instance it checks.
ModelRegistryAssumption ==
  /\ None \notin Names \cup Models /\ Torn \notin Models /\ None # Torn
  /\ MaxRequests \in Nat /\ MaxCrashes \in Nat /\ MaxFaults \in Nat

Idle == [step |-> "idle", name |-> None, id |-> 0, copy |-> NoModels, handle |-> "none"]

TypeOK ==
  /\ memory \in Models /\ disk \in Texts /\ tmp \in Texts
  /\ worker \in [Workers ->
       [step : {"idle", "load", "install", "set", "dump", "open", "fill", "replace"},
        name : Names \cup {None}, id : 0..MaxRequests, copy : Models,
        handle : {"none", "tmp", "disk"}]]
  /\ requests \in 0..MaxRequests /\ crashes \in 0..MaxCrashes /\ faults \in 0..MaxFaults
  /\ answered \in Models /\ overlapped \in BOOLEAN

Init ==
  /\ memory = NoModels /\ disk = None /\ tmp = None
  /\ worker = [w \in Workers |-> Idle]
  /\ requests = 0 /\ crashes = 0 /\ faults = 0
  /\ answered = NoModels /\ overlapped = FALSE

-----------------------------------------------------------------------------
At(w, step) == worker[w].step = step
GoTo(w, step) == worker' = [worker EXCEPT ![w].step = step]
Answer(w) == worker' = [worker EXCEPT ![w] = Idle]

\* _ensure_loaded: a registry with models in it is not loaded again.
Accept(w, n, next) ==
  /\ At(w, "idle") /\ requests < MaxRequests
  /\ requests' = requests + 1
  /\ worker' = [worker EXCEPT ![w] =
       [Idle EXCEPT !.step = IF memory = NoModels THEN "load" ELSE next,
                    !.name = n, !.id = requests + 1]]
  /\ overlapped' = (overlapped \/ \E v \in Workers \ {w} : ~At(v, "idle"))
  /\ UNCHANGED <<memory, disk, tmp, crashes, faults, answered>>

Register(w, n) == Accept(w, n, "set")

\* list_models and get_model of an empty registry load it too.
Look(w) == memory = NoModels /\ Accept(w, None, "load")

\* A file that cannot be parsed is no file.
Load(w) ==
  /\ At(w, "load")
  /\ worker' = [worker EXCEPT ![w] =
       [@ EXCEPT !.step = "install",
                 !.copy = IF disk \in {None, Torn} THEN NoModels ELSE disk]]
  /\ UNCHANGED <<memory, disk, tmp, requests, crashes, faults, answered, overlapped>>

\* Whatever is in memory by now is replaced.
Install(w) ==
  /\ At(w, "install")
  /\ memory' = worker[w].copy
  /\ IF worker[w].name = None THEN Answer(w) ELSE GoTo(w, "set")
  /\ UNCHANGED <<disk, tmp, requests, crashes, faults, answered, overlapped>>

Set(w) ==
  /\ At(w, "set")
  /\ memory' = [memory EXCEPT ![worker[w].name] = worker[w].id]
  /\ GoTo(w, "dump")
  /\ UNCHANGED <<disk, tmp, requests, crashes, faults, answered, overlapped>>

\* json.dumps of the registry, which may be another dictionary by now.
Dump(w) ==
  /\ At(w, "dump")
  /\ worker' = [worker EXCEPT ![w] = [@ EXCEPT !.step = "open", !.copy = memory]]
  /\ UNCHANGED <<memory, disk, tmp, requests, crashes, faults, answered, overlapped>>

\* Mutant of OpenTmp: the registry's own file is opened.
OpenInPlace(w) ==
  /\ At(w, "open")
  /\ disk' = Torn
  /\ worker' = [worker EXCEPT ![w] = [@ EXCEPT !.step = "fill", !.handle = "disk"]]
  /\ UNCHANGED <<memory, tmp, requests, crashes, faults, answered, overlapped>>

OpenTmp(w) ==
  /\ At(w, "open")
  /\ tmp' = Torn
  /\ worker' = [worker EXCEPT ![w] = [@ EXCEPT !.step = "fill", !.handle = "tmp"]]
  /\ UNCHANGED <<memory, disk, requests, crashes, faults, answered, overlapped>>

\* What a file that was truncated for the text holds when the text was written:
\* if another thread has written meanwhile, the longer text's end stays.
Written(file, text) == IF file = Torn THEN {text} ELSE {text, Torn}

\* write_text; or it raises, and the registration stays in memory only.
Fill(w) ==
  /\ At(w, "fill")
  /\ \/ /\ CASE worker[w].handle = "tmp" -> tmp' \in Written(tmp, worker[w].copy) /\ UNCHANGED disk
             [] worker[w].handle = "disk" -> disk' \in Written(disk, worker[w].copy) /\ UNCHANGED tmp
             [] worker[w].handle = "none" -> UNCHANGED <<disk, tmp>>
        /\ worker' = [worker EXCEPT ![w] = [@ EXCEPT !.step = "replace", !.handle = "none"]]
        /\ UNCHANGED faults
     \/ /\ faults < MaxFaults /\ faults' = faults + 1
        /\ Answer(w) /\ UNCHANGED <<disk, tmp>>
  /\ UNCHANGED <<memory, requests, crashes, answered, overlapped>>

\* tmp.replace moves the file under the threads that hold it open; the second
\* of two finds none and its request fails.
Replace(w) ==
  /\ At(w, "replace")
  /\ IF tmp = None
     THEN Answer(w) /\ UNCHANGED <<disk, tmp, answered>>
     ELSE /\ disk' = tmp /\ tmp' = None
          /\ answered' = [answered EXCEPT ![worker[w].name] = worker[w].id]
          /\ worker' = [v \in Workers |->
               CASE v = w -> Idle
                 [] v # w /\ worker[v].handle = "tmp" -> [worker[v] EXCEPT !.handle = "disk"]
                 [] v # w /\ worker[v].handle # "tmp" -> [worker[v] EXCEPT !.handle = "none"]]
  /\ UNCHANGED <<memory, requests, crashes, faults, overlapped>>

\* The process dies and comes up again with an empty registry.
Crash ==
  /\ crashes < MaxCrashes /\ crashes' = crashes + 1
  /\ memory' = NoModels
  /\ worker' = [w \in Workers |-> Idle]
  /\ UNCHANGED <<disk, tmp, requests, faults, answered, overlapped>>

Step(w) ==
  \/ \E n \in Names : Register(w, n)
  \/ Look(w) \/ Load(w) \/ Install(w) \/ Set(w) \/ Dump(w) \/ OpenTmp(w) \/ Fill(w) \/ Replace(w)

Next == (\E w \in Workers : Step(w)) \/ Crash

Spec == Init /\ [][Next]_vars

-----------------------------------------------------------------------------
(* Properties. *)

\* As long as no two requests were handled at once, a registration that was
\* answered is on disk, or a later one of its name, whatever was cut short and
\* however often the process died (_atomic_write).
AnsweredModelsKept ==
  ~overlapped =>
    /\ disk # Torn
    /\ \A n \in Names : answered[n] # 0 => disk # None /\ disk[n] >= answered[n]

=============================================================================
