-------------------------- MODULE LuaRequestHandler --------------------------
(* The request handler that runs a Lua script as a coroutine                      *)
(* (src/lua/luaRequestHandler.cpp), with the script it runs and the host that     *)
(* drives it (the loop of tests/luarequest/src/testLuaRequest.cpp).  The script   *)
(* sends requests to be delegated and yields; the host executes the requests sent *)
(* since the last run and hands over the answers by their index; the script goes  *)
(* on and reads them.                                                             *)
EXTENDS Naturals, Sequences, FiniteSets

CONSTANTS MaxNofDelegates, \* 256 in the code
          DocType,         \* pairs of a content type and an encoding
          NULL

ASSUME BoundAssumption == MaxNofDelegates \in Nat
ASSUME NullAssumption  == NULL \notin DocType \cup {"result", "error"}
ASSUME KindsAssumption == {"none", "string"} \cap DocType = {}

VARIABLES pc,        \* who runs: "host", "script"; or how it ended: "returned", "failed"
          resumable, \* the coroutine has not ended
          delegate,  \* m_delegate[0 .. m_nof_delegates-1]: the answers given, or NULL
          start,     \* m_start_delegates
          next,      \* index of the host in its loop over the requests of this run
          contentDefined, doctype, \* what getOutputString decides on
          result,    \* "none", "string", or the doctype a structure was mapped to
          seen       \* history: doctypes of the contents the script looked at

vars == <<pc, resumable, delegate, start, next, contentDefined, doctype, result, seen>>

nof == Len(delegate)

Init == /\ pc = "host" /\ resumable = TRUE
        /\ delegate = <<>> /\ start = 0 /\ next = 0
        /\ contentDefined = 0 /\ doctype = NULL
        /\ result = "none" /\ seen = {}

(* papuga_run_LuaRequestHandler: the requests from here on are those of this run. *)
RunKeepingStart ==
  /\ pc = "host" /\ start + next = nof
  /\ next' = 0
  /\ pc' = IF resumable THEN "script" ELSE "failed"
  /\ UNCHANGED <<resumable, delegate, start, contentDefined, doctype, result, seen>>
Run == /\ pc = "host" /\ start + next = nof
       /\ start' = nof /\ next' = 0
       /\ pc' = IF resumable THEN "script" ELSE "failed"
       /\ UNCHANGED <<resumable, delegate, contentDefined, doctype, result, seen>>

-----------------------------------------------------------------------------
(* send: the request is taken, or an error is raised that the script may catch,   *)
(* because there are too many or the content cannot be mapped (no state changes). *)
Send == /\ pc = "script" /\ nof < MaxNofDelegates
        /\ delegate' = Append(delegate, NULL)
        /\ UNCHANGED <<pc, resumable, start, next, contentDefined, doctype, result, seen>>

(* setDocumentType, by content() and schema() *)
SetDocumentTypeKeepingFirst(d) ==
  /\ doctype' = IF contentDefined = 0 THEN d ELSE doctype
  /\ contentDefined' = 1
SetDocumentType(d) ==
  /\ doctype' = IF contentDefined = 0 THEN d ELSE doctype
  /\ contentDefined' = IF contentDefined = 0 THEN 1
                       ELSE IF contentDefined = 1 /\ doctype # d THEN 2
                       ELSE contentDefined

Content(d) == /\ pc = "script"
              /\ SetDocumentType(d)
              /\ seen' = seen \cup {d}
              /\ UNCHANGED <<pc, resumable, delegate, start, next, result>>

(* run() when the coroutine is left: by a yield, ...                              *)
Yield == /\ pc = "script"
         /\ pc' = "host"
         /\ UNCHANGED <<resumable, delegate, start, next, contentDefined, doctype, result, seen>>

(* ... by an error, of which the host sees nothing when its message is empty, ... *)
Raise(silent) ==
  /\ pc = "script"
  /\ resumable' = FALSE
  /\ pc' = IF silent THEN "host" ELSE "failed"
  /\ UNCHANGED <<delegate, start, next, contentDefined, doctype, result, seen>>

(* ... or by a return of nothing, a string, a structure, or too many values.      *)
ReturnValue(kind) ==
  /\ pc = "script"
  /\ resumable' = FALSE
  /\ IF kind = "many" \/ (kind = "structure" /\ contentDefined # 1)
     THEN pc' = "failed" /\ result' = result
     ELSE pc' = "returned" /\ result' = IF kind = "structure" THEN doctype ELSE kind
  /\ UNCHANGED <<delegate, start, next, contentDefined, doctype, seen>>

-----------------------------------------------------------------------------
(* The host: take the next request of this run with get_delegateRequest, execute  *)
(* it and hand over what came out with init_result or init_error (init_result     *)
(* turns into an error when there is no memory).                                  *)
IndexOfAnsweredFromFirst(idx) == idx + 1
IndexOfAnswered(idx) == start + idx + 1

Answer(kind) ==
  /\ pc = "host" /\ start + next < nof
  /\ delegate' = [delegate EXCEPT ![IndexOfAnswered(next)] = kind]
  /\ next' = next + 1
  /\ UNCHANGED <<pc, resumable, start, contentDefined, doctype, result, seen>>

Kinds == {"result", "error"}

Next == \/ Run
        \/ Send
        \/ \E d \in DocType : Content(d)
        \/ Yield
        \/ \E silent \in BOOLEAN : Raise(silent)
        \/ \E kind \in {"none", "string", "structure", "many"} : ReturnValue(kind)
        \/ \E kind \in Kinds : Answer(kind)

Spec == Init /\ [][Next]_vars

(* The host's loop goes on as long as the script yields; nothing makes a script   *)
(* leave the coroutine.                                                           *)
FairSpec == Spec /\ WF_vars(Run) /\ WF_vars(\E kind \in Kinds : Answer(kind))

-----------------------------------------------------------------------------
(* Types of the variables.                                                         *)
TypeOK == /\ pc \in {"host", "script", "returned", "failed"}
          /\ resumable \in BOOLEAN
          /\ delegate \in Seq({NULL} \cup Kinds)
          /\ start \in Nat /\ next \in Nat /\ start + next <= nof
          /\ contentDefined \in 0..2 /\ doctype \in DocType \cup {NULL}
          /\ result \in {"none", "string"} \cup DocType
          /\ seen \subseteq DocType

(* When the script goes on after a yield, every request it had sent is answered:   *)
(* an error() of nil then means that there is a result.                            *)
ResumedWithAnswers ==
  pc = "script" => \A i \in 1..nof : i <= start <=> delegate[i] # NULL

(* A structure is mapped to the content type and encoding of the documents that    *)
(* the script looked at only when they were all the same.                          *)
StructureMappedAsRead ==
  /\ contentDefined = 1 => seen = {doctype}
  /\ pc = "returned" /\ result \in DocType => seen = {result}

(* The strengthening under which the invariants above are inductive: the requests  *)
(* answered are those before the index of the host, which stands at the start of   *)
(* the run while the script runs.                                                  *)
AnsweredInOrder == /\ \A i \in 1..nof : i <= start + next <=> delegate[i] # NULL
                   /\ pc = "script" => next = 0
NothingSeen == contentDefined = 0 => seen = {}
IInv == TypeOK /\ AnsweredInOrder /\ NothingSeen /\ StructureMappedAsRead

(* A request that was sent before a yield is eventually answered.                  *)
YieldedAreAnswered ==
  \A i \in 1..MaxNofDelegates : (pc = "host" /\ i <= nof) ~> (i <= nof /\ delegate[i] # NULL)
=============================================================================
