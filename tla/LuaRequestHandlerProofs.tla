----------------------- MODULE LuaRequestHandlerProofs -----------------------
(* For every number of requests and every set of document types: a script is       *)
(* resumed with the answers to all its requests and to no other ones, and a         *)
(* structure is mapped to the type of the documents it comes from.                 *)
EXTENDS LuaRequestHandler, SequenceTheorems, TLAPS

(* The requests of the script and the answers to them, as far as they are counted. *)
LEMMA RequestFacts ==
  ASSUME TypeOK
  PROVE  /\ nof \in Nat /\ DOMAIN delegate = 1..nof
         /\ \A i \in 1..nof : delegate[i] \in {NULL} \cup Kinds
  BY LenProperties, ElementOfSeq DEF TypeOK, nof

LEMMA InitIInv == Init => IInv
  BY EmptySeq
     DEF Init, IInv, TypeOK, AnsweredInOrder, NothingSeen,
         StructureMappedAsRead, nof

(* The requests of the run before are all answered when the next run begins.       *)
LEMMA RunIInv ==
  ASSUME IInv, Run
  PROVE  IInv'
  BY RequestFacts
     DEF Run, IInv, TypeOK, AnsweredInOrder, NothingSeen,
         StructureMappedAsRead, nof

(* A request is sent behind all that are answered, and is not answered itself.     *)
LEMMA SendIInv ==
  ASSUME IInv, Send
  PROVE  IInv'
<1>1. /\ delegate' = Append(delegate, NULL)
      /\ UNCHANGED <<pc, resumable, start, next, contentDefined, doctype, result, seen>>
  BY DEF Send
<1>2. nof \in Nat /\ delegate \in Seq({NULL} \cup Kinds)
  BY RequestFacts DEF IInv, TypeOK
<1>3. /\ delegate' \in Seq({NULL} \cup Kinds)
      /\ nof' = nof + 1
      /\ \A i \in 1..nof : delegate'[i] = delegate[i]
      /\ delegate'[nof + 1] = NULL
  BY <1>1, <1>2, AppendProperties DEF nof
<1>4. TypeOK'
  BY <1>1, <1>2, <1>3 DEF IInv, TypeOK
<1>5. AnsweredInOrder'
  <2>1. ASSUME NEW i \in 1..nof'
        PROVE  i <= start' + next' <=> delegate'[i] # NULL
    <3>1. start' + next' = start + next /\ start + next \in Nat /\ start + next <= nof
      BY <1>1 DEF IInv, TypeOK
    <3>2. CASE i \in 1..nof
      BY <1>3, <3>1, <3>2 DEF IInv, AnsweredInOrder
    <3>3. CASE i = nof + 1
      BY <1>2, <1>3, <3>1, <3>3
    <3>4. QED BY <1>2, <1>3, <2>1, <3>2, <3>3
  <2>2. QED BY <1>1, <2>1 DEF IInv, AnsweredInOrder
<1>6. QED BY <1>1, <1>4, <1>5 DEF IInv, NothingSeen, StructureMappedAsRead

(* The answer goes to the request the index of the host stands for.                *)
LEMMA AnswerIInv ==
  ASSUME IInv, NEW kind \in Kinds, Answer(kind)
  PROVE  IInv'
<1> DEFINE at == start + next + 1
<1>1. /\ pc = "host" /\ at \in 1..nof
      /\ delegate' = [delegate EXCEPT ![at] = kind]
      /\ next' = next + 1
      /\ UNCHANGED <<pc, resumable, start, contentDefined, doctype, result, seen>>
  BY RequestFacts DEF Answer, IndexOfAnswered, IInv, TypeOK
<1>2. kind # NULL
  BY NullAssumption DEF Kinds
<1>3. delegate \in Seq({NULL} \cup Kinds)
  BY DEF IInv, TypeOK
<1>4. /\ delegate' \in Seq({NULL} \cup Kinds)
      /\ nof' = nof
      /\ \A i \in 1..nof : delegate'[i] = IF i = at THEN kind ELSE delegate[i]
  BY <1>1, <1>2, <1>3, ExceptSeq DEF nof
<1>5. nof \in Nat
  BY RequestFacts DEF IInv
<1>6. TypeOK'
  BY <1>1, <1>4, <1>5 DEF IInv, TypeOK
<1>7. AnsweredInOrder'
  BY <1>1, <1>2, <1>4, <1>5 DEF IInv, TypeOK, AnsweredInOrder
<1>8. QED BY <1>1, <1>6, <1>7 DEF IInv, NothingSeen, StructureMappedAsRead

(* The types of the documents looked at are counted as none, one or many.          *)
LEMMA ContentIInv ==
  ASSUME IInv, NEW d \in DocType, Content(d)
  PROVE  IInv'
<1>1. nof' = nof
  BY DEF Content, nof
<1>2. QED
  BY <1>1 DEF Content, SetDocumentType, IInv, TypeOK, AnsweredInOrder,
              NothingSeen, StructureMappedAsRead

LEMMA LeaveIInv ==
  ASSUME IInv,
         Yield \/ (\E silent \in BOOLEAN : Raise(silent))
           \/ (\E kind \in {"none", "string", "structure", "many"} : ReturnValue(kind))
  PROVE  IInv'
<1>1. /\ nof' = nof /\ delegate' = delegate /\ start' = start /\ next' = next
      /\ contentDefined' = contentDefined /\ doctype' = doctype /\ seen' = seen
      /\ pc = "script"
  BY DEF Yield, Raise, ReturnValue, nof
<1>2. AnsweredInOrder' /\ NothingSeen'
  BY <1>1 DEF IInv, AnsweredInOrder, NothingSeen
<1>3. CASE Yield \/ (\E silent \in BOOLEAN : Raise(silent))
  BY <1>1, <1>2, <1>3 DEF Yield, Raise, IInv, TypeOK, StructureMappedAsRead
<1>4. ASSUME NEW kind \in {"none", "string", "structure", "many"}, ReturnValue(kind)
      PROVE  IInv'
  <2>1. CASE kind = "many" \/ (kind = "structure" /\ contentDefined # 1)
    BY <1>1, <1>2, <1>4, <2>1 DEF ReturnValue, IInv, TypeOK, StructureMappedAsRead
  <2>2. CASE kind = "structure" /\ contentDefined = 1
    BY <1>1, <1>2, <1>4, <2>2 DEF ReturnValue, IInv, TypeOK, StructureMappedAsRead
  <2>3. CASE kind \in {"none", "string"}
    BY <1>1, <1>2, <1>4, <2>3, KindsAssumption
       DEF ReturnValue, IInv, TypeOK, StructureMappedAsRead
  <2>4. QED BY <2>1, <2>2, <2>3
<1>5. QED BY <1>3, <1>4

(* The invariant that is inductive: the requests answered are those before the     *)
(* index of the host (papuga_run_LuaRequestHandler, init_result).                  *)
THEOREM InductiveInvariant == Spec => []IInv
<1>1. Init => IInv
  BY InitIInv
<1>2. IInv /\ [Next]_vars => IInv'
  <2>1. SUFFICES ASSUME IInv, [Next]_vars PROVE IInv'
    OBVIOUS
  <2>2. CASE Run BY <2>1, <2>2, RunIInv
  <2>3. CASE Send BY <2>1, <2>3, SendIInv
  <2>4. ASSUME NEW d \in DocType, Content(d) PROVE IInv'
    BY <2>1, <2>4, ContentIInv
  <2>5. ASSUME NEW kind \in Kinds, Answer(kind) PROVE IInv'
    BY <2>1, <2>5, AnswerIInv
  <2>6. CASE Yield \/ (\E silent \in BOOLEAN : Raise(silent))
               \/ (\E kind \in {"none", "string", "structure", "many"} : ReturnValue(kind))
    BY <2>1, <2>6, LeaveIInv
  <2>7. CASE UNCHANGED vars
    BY <2>1, <2>7 DEF vars, IInv, TypeOK, AnsweredInOrder, NothingSeen,
                      StructureMappedAsRead, nof
  <2>8. QED BY <2>1, <2>2, <2>3, <2>4, <2>5, <2>6, <2>7 DEF Next
<1>3. QED BY <1>1, <1>2, PTL DEF Spec

(* A script that goes on after a yield has the answers to all it sent before.      *)
THEOREM AlwaysResumedWithAnswers == Spec => []ResumedWithAnswers
<1>1. IInv => ResumedWithAnswers
  BY DEF IInv, TypeOK, AnsweredInOrder, ResumedWithAnswers
<1>2. QED BY <1>1, InductiveInvariant, PTL

(* A structure returned is mapped to the only type of the documents looked at      *)
(* (getOutputString).                                                              *)
THEOREM StructureAlwaysMappedAsRead == Spec => []StructureMappedAsRead
<1>1. IInv => StructureMappedAsRead
  BY DEF IInv
<1>2. QED BY <1>1, InductiveInvariant, PTL
=============================================================================
