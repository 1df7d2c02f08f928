-------------------------- MODULE ConfirmationProofs --------------------------
(***************************************************************************)
(* What lands over MCP was shown and allowed, for any number of requests,  *)
(* documents and writes by others. The server remembers nothing, so the    *)
(* argument follows a question from the one who was shown it: the answer a *)
(* request brings back names a question that was shown, the digest ties it *)
(* to the arguments and to the documents the check read, and what is       *)
(* applied differs from it only if the documents did meanwhile.            *)
(***************************************************************************)
EXTENDS Confirmation, TLAPS

State == [Target -> Body \cup {NoText}]

\* The planner's summary of a call on given documents.
SummaryOn(docs, call) ==
    [kind |-> IF call.tool = "delete" THEN "delete" ELSE IF docs[call.target] = NoText THEN "create" ELSE "update",
     target |-> call.target,
     diff |-> IF call.tool = "delete" THEN << >> ELSE <<docs[call.target], call.text>>]

\* A request that was made holds its call and an answer, one that was approved the
\* documents it was checked on too.
Made(leg) == leg = [at |-> leg.at, call |-> leg.call, prior |-> leg.prior]
Approved(leg) == leg = [at |-> leg.at, call |-> leg.call, prior |-> leg.prior, under |-> leg.under]

TypeOK ==
    /\ documents \in State
    /\ legs = [l \in Leg |-> legs[l]]
    /\ \A l \in Leg :
         \/ legs[l].at = "unused"
         \/ legs[l].at \in {"called", "asked", "refused"} /\ Made(legs[l]) /\ legs[l].call \in Call
         \/ legs[l].at \in {"approved", "refused", "applied"} /\ Approved(legs[l]) /\ legs[l].call \in Call
              /\ legs[l].under \in State

\* The digest of every question that was shown is that of its arguments and summary.
Honest ==
    \A q \in shown : q # NoQuestion /\ q.digest = <<q.call, q.summary>>

\* An answer is to a question that was shown, in the user's hands and on its way back.
OfferedBack ==
    /\ answered = [allowed |-> answered.allowed, denied |-> answered.denied]
    /\ answered.allowed \cup answered.denied \subseteq shown
    /\ \A l \in Leg : legs[l].at = "called" => legs[l].prior \in shown \cup {NoQuestion}

\* An approved request was allowed with its arguments, as its check saw the documents.
Consented ==
    \A l \in Leg : legs[l].at = "approved" =>
        /\ legs[l].prior \in answered.allowed
        /\ legs[l].prior.call = legs[l].call
        /\ legs[l].prior.summary = SummaryOn(legs[l].under, legs[l].call)

ConfirmationInv == TypeOK /\ Honest /\ OfferedBack /\ Consented /\ LandedAsShown

-----------------------------------------------------------------------------

\* The planner reads the documents as they are.
LEMMA SummaryNow == \A call : Summary(call) = SummaryOn(documents, call)
BY DEF Summary, SummaryOn

\* At first nothing was shown.
LEMMA ConfirmationBegins == ConfirmationInit => ConfirmationInv
<1> SUFFICES ASSUME ConfirmationInit PROVE ConfirmationInv
  OBVIOUS
<1>1. TypeOK
  BY DEF ConfirmationInit, TypeOK, State
<1>2. Honest /\ OfferedBack /\ Consented /\ LandedAsShown
  BY DEF ConfirmationInit, Honest, OfferedBack, Consented, LandedAsShown
<1> QED
  BY <1>1, <1>2 DEF ConfirmationInv

-----------------------------------------------------------------------------
(* Each step keeps the invariant.                                          *)

\* A leg that goes on holds what its new step says, and the others what they held.
LEMMA LegsTyped ==
    ASSUME TypeOK, NEW l \in Leg, NEW leg, legs' = [legs EXCEPT ![l] = leg],
           documents' \in State,
           \/ leg.at \in {"called", "asked", "refused"} /\ Made(leg) /\ leg.call \in Call
           \/ leg.at \in {"approved", "refused", "applied"} /\ Approved(leg) /\ leg.call \in Call
                /\ leg.under \in State
    PROVE  TypeOK'
<1>1. legs' = [k \in Leg |-> legs'[k]] /\ \A k \in Leg : legs'[k] = IF k = l THEN leg ELSE legs[k]
  BY DEF TypeOK
<1> QED
  BY <1>1 DEF TypeOK, Made, Approved, State

\* A call comes in, with an answer its client had or none.
LEMMA CallsKeep == ASSUME ConfirmationInv, NEW l \in Leg, Calls(l) PROVE ConfirmationInv'
<1> USE DEF ConfirmationInv
<1>1. PICK call \in Offered, q \in shown \cup {NoQuestion} :
        legs' = [legs EXCEPT ![l] = [at |-> "called", call |-> call, prior |-> q]]
  BY DEF Calls
<1> DEFINE leg == [at |-> "called", call |-> call, prior |-> q]
<1>2. UNCHANGED <<documents, shown, answered, landed, writes>>
  BY DEF Calls
<1>3. Made(leg) /\ leg.at = "called" /\ leg.call = call /\ leg.prior = q /\ call \in Call
  BY OfferedAssumption DEF Made
<1>4. legs' = [legs EXCEPT ![l] = leg] /\ \A k \in Leg : legs'[k] = IF k = l THEN leg ELSE legs[k]
  BY <1>1 DEF TypeOK
<1> HIDE DEF leg
<1>5. TypeOK'
  BY <1>2, <1>3, <1>4, LegsTyped DEF TypeOK
<1>6. Honest' /\ LandedAsShown'
  BY <1>2 DEF Honest, LandedAsShown
<1>7. OfferedBack'
  BY <1>2, <1>3, <1>4 DEF OfferedBack
<1>8. Consented'
  BY <1>2, <1>3, <1>4 DEF Consented, SummaryOn
<1> QED
  BY <1>5, <1>6, <1>7, <1>8

\* The user answers a question he was shown.
LEMMA AnswersKeep == ASSUME ConfirmationInv, UserAnswers PROVE ConfirmationInv'
<1> USE DEF ConfirmationInv
<1>1. PICK q \in shown :
        /\ \/ answered' = [answered EXCEPT !.allowed = @ \cup {q}]
           \/ answered' = [answered EXCEPT !.denied = @ \cup {q}]
        /\ UNCHANGED <<documents, legs, shown, landed, writes>>
  BY DEF UserAnswers
<1>2. \/ answered' = [allowed |-> answered.allowed \cup {q}, denied |-> answered.denied]
      \/ answered' = [allowed |-> answered.allowed, denied |-> answered.denied \cup {q}]
  BY <1>1 DEF OfferedBack
<1>3. /\ answered' = [allowed |-> answered'.allowed, denied |-> answered'.denied]
      /\ answered.allowed \subseteq answered'.allowed
      /\ answered'.allowed \cup answered'.denied \subseteq shown
  BY <1>2 DEF OfferedBack
<1>4. TypeOK' /\ Honest'
  BY <1>1 DEF TypeOK, Honest, State, Made, Approved
<1>5. OfferedBack'
  BY <1>1, <1>3 DEF OfferedBack
<1>6. Consented' /\ LandedAsShown'
  BY <1>1, <1>3 DEF Consented, LandedAsShown, SummaryOn
<1> QED
  BY <1>4, <1>5, <1>6

\* A leg that ends, asked or refused, keeps what it held.
LEMMA EndsKeep ==
    ASSUME ConfirmationInv, NEW l \in Leg, NEW at \in {"asked", "refused"},
           \/ legs[l].at = "called"
           \/ legs[l].at = "approved" /\ at = "refused",
           legs' = [legs EXCEPT ![l].at = at], UNCHANGED <<documents, answered, landed>>,
           shown \subseteq shown', Honest'
    PROVE  ConfirmationInv'
<1> USE DEF ConfirmationInv
<1> DEFINE leg == [legs[l] EXCEPT !.at = at]
<1>1. legs' = [legs EXCEPT ![l] = leg] /\ \A k \in Leg : legs'[k] = IF k = l THEN leg ELSE legs[k]
  BY DEF TypeOK
<1>2. /\ leg.at = at
      /\ legs[l].at = "called" => Made(leg) /\ leg.call \in Call
      /\ legs[l].at = "approved" => Approved(leg) /\ leg.call \in Call /\ leg.under \in State
  BY DEF TypeOK, Made, Approved
<1> HIDE DEF leg
<1>3. TypeOK'
  BY <1>1, <1>2, LegsTyped DEF TypeOK
<1>4. OfferedBack'
  BY <1>1, <1>2 DEF OfferedBack
<1>5. Consented'
  BY <1>1, <1>2 DEF Consented, SummaryOn
<1>6. LandedAsShown'
  BY DEF LandedAsShown
<1> QED
  BY <1>3, <1>4, <1>5, <1>6

\* A call is planned: it is refused, asked about, or obeyed where its answer is to this
\* very question.
LEMMA ChecksKeep == ASSUME ConfirmationInv, NEW l \in Leg, Checks(l) PROVE ConfirmationInv'
<1> USE DEF ConfirmationInv
<1> DEFINE call == legs[l].call
           prior == legs[l].prior
           summary == Summary(call)
           question == [asked |-> "change", call |-> call, summary |-> summary,
                        digest |-> Digest(call, summary)]
<1>1. legs[l].at = "called" /\ UNCHANGED <<documents, answered, landed, writes>>
  BY DEF Checks
<1>2. Made(legs[l]) /\ call \in Call /\ prior \in shown \cup {NoQuestion}
  BY <1>1 DEF TypeOK, OfferedBack
<1>3. \/ legs' = [legs EXCEPT ![l].at = "refused"] /\ UNCHANGED shown
      \/ Asks(l, summary)
      \/ /\ prior # NoQuestion /\ prior.digest = Digest(call, summary) /\ prior \in answered.allowed
         /\ legs' = [legs EXCEPT ![l] = [at |-> "approved", call |-> call, prior |-> prior,
                                         under |-> documents]]
         /\ UNCHANGED shown
  BY DEF Checks
<1>4. CASE legs' = [legs EXCEPT ![l].at = "refused"] /\ UNCHANGED shown
  <2>1. Honest'
    BY <1>4 DEF Honest
  <2> QED
    BY <1>1, <1>4, <2>1, EndsKeep
<1>5. CASE Asks(l, summary)
  <2>1. shown' = shown \cup {question} /\ legs' = [legs EXCEPT ![l].at = "asked"]
    BY <1>5 DEF Asks
  <2>2. question # NoQuestion /\ question.digest = <<question.call, question.summary>>
    BY DEF NoQuestion, Digest
  <2> HIDE DEF question
  <2>3. Honest'
    BY <2>1, <2>2 DEF Honest
  <2> QED
    BY <1>1, <2>1, <2>3, EndsKeep
<1>6. CASE /\ prior # NoQuestion /\ prior.digest = Digest(call, summary) /\ prior \in answered.allowed
           /\ legs' = [legs EXCEPT ![l] = [at |-> "approved", call |-> call, prior |-> prior,
                                           under |-> documents]]
           /\ UNCHANGED shown
  <2> DEFINE leg == [at |-> "approved", call |-> call, prior |-> prior, under |-> documents]
  <2>1. /\ leg.at = "approved" /\ Approved(leg) /\ leg.call = call /\ leg.prior = prior
        /\ leg.under = documents
    BY DEF Approved
  <2>2. legs' = [legs EXCEPT ![l] = leg] /\ \A k \in Leg : legs'[k] = IF k = l THEN leg ELSE legs[k]
    BY <1>6 DEF TypeOK
  <2>3. prior.call = call /\ prior.summary = SummaryOn(documents, call)
    <3>1. prior.digest = <<prior.call, prior.summary>> /\ prior.digest = <<call, summary>>
      BY <1>2, <1>6 DEF Honest, Digest
    <3> QED
      BY <3>1, SummaryNow
  <2> HIDE DEF leg
  <2>4. TypeOK'
    BY <1>1, <1>2, <2>1, <2>2, LegsTyped DEF TypeOK
  <2>5. Honest' /\ OfferedBack'
    BY <1>1, <1>6, <2>1, <2>2 DEF Honest, OfferedBack
  <2>6. Consented'
    BY <1>1, <1>6, <2>1, <2>2, <2>3 DEF Consented, SummaryOn
  <2>7. LandedAsShown'
    BY <1>1 DEF LandedAsShown
  <2> QED
    BY <2>4, <2>5, <2>6, <2>7
<1> QED
  BY <1>3, <1>4, <1>5, <1>6

\* An approved call commits: it differs from its question only if the documents do from
\* what its check saw.
LEMMA AppliesKeep == ASSUME ConfirmationInv, NEW l \in Leg, Applies(l) PROVE ConfirmationInv'
<1> USE DEF ConfirmationInv
<1> DEFINE call == legs[l].call
           change == [leg |-> l, call |-> call, summary |-> Summary(call),
                      raced |-> documents # legs[l].under]
<1>1. legs[l].at = "approved" /\ UNCHANGED <<shown, answered, writes>>
  BY DEF Applies
<1>2. Approved(legs[l]) /\ call \in Call /\ legs[l].under \in State
  BY <1>1 DEF TypeOK
<1>3. CASE Refused(call)
  <2>1. legs' = [legs EXCEPT ![l].at = "refused"] /\ UNCHANGED <<documents, landed>>
    BY <1>3 DEF Applies
  <2>2. Honest'
    BY <1>1 DEF Honest
  <2> QED
    BY <1>1, <2>1, <2>2, EndsKeep
<1>4. CASE ~Refused(call)
  <2>1. /\ documents' = [documents EXCEPT ![call.target] = call.text]
        /\ landed' = landed \cup {change}
        /\ legs' = [legs EXCEPT ![l].at = "applied"]
    BY <1>4 DEF Applies
  <2> DEFINE leg == [legs[l] EXCEPT !.at = "applied"]
  <2>2. Approved(leg) /\ leg.at = "applied" /\ leg.call = call /\ leg.under = legs[l].under
    BY <1>2 DEF Approved
  <2>3. legs' = [legs EXCEPT ![l] = leg] /\ \A k \in Leg : legs'[k] = IF k = l THEN leg ELSE legs[k]
    BY <2>1 DEF TypeOK
  <2> HIDE DEF leg
  <2>4. documents' \in State
    <3>1. call.text \in Body \cup {NoText}
      BY <1>2 DEF Call
    <3> QED
      BY <2>1, <3>1 DEF TypeOK, State
  <2>5. TypeOK'
    BY <1>2, <2>2, <2>3, <2>4, LegsTyped
  <2>6. Honest' /\ OfferedBack'
    BY <1>1, <2>2, <2>3 DEF Honest, OfferedBack
  <2>7. Consented'
    BY <1>1, <2>2, <2>3 DEF Consented, SummaryOn
  <2>8. LandedAsShown'
    <3>1. /\ legs[l].prior \in answered.allowed /\ legs[l].prior.call = change.call
          /\ change.raced \/ legs[l].prior.summary = change.summary
      <4>1. change.summary = SummaryOn(documents, call)
        BY SummaryNow
      <4> QED
        BY <1>1, <4>1 DEF Consented
    <3> HIDE DEF change
    <3>2. \A a \in landed' : a \in landed \/ a = change
      BY <2>1
    <3> QED
      BY <1>1, <3>1, <3>2 DEF LandedAsShown
  <2> QED
    BY <2>5, <2>6, <2>7, <2>8
<1> QED
  BY <1>3, <1>4

\* Somebody else writes.
LEMMA OthersKeep == ASSUME ConfirmationInv, Others PROVE ConfirmationInv'
<1> USE DEF ConfirmationInv
<1>1. UNCHANGED <<legs, shown, answered, landed>>
  BY DEF Others
<1>2. PICK t \in Target, b \in Body \cup {NoText} : documents' = [documents EXCEPT ![t] = b]
  BY DEF Others
<1>3. documents' \in State
  BY <1>2 DEF TypeOK, State
<1>4. TypeOK'
  BY <1>1, <1>3 DEF TypeOK, Made, Approved, State
<1>5. Honest' /\ OfferedBack' /\ Consented' /\ LandedAsShown'
  BY <1>1 DEF Honest, OfferedBack, Consented, LandedAsShown, SummaryOn
<1> QED
  BY <1>4, <1>5

-----------------------------------------------------------------------------

\* The invariant holds of every behaviour.
LEMMA ConfirmationAlways == ConfirmationSpec => []ConfirmationInv
<1>1. ConfirmationInv /\ [ConfirmationNext]_confirmationVars => ConfirmationInv'
  <2> SUFFICES ASSUME ConfirmationInv, [ConfirmationNext]_confirmationVars PROVE ConfirmationInv'
    OBVIOUS
  <2>1. ASSUME NEW l \in Leg, Calls(l) PROVE ConfirmationInv'
    BY <2>1, CallsKeep
  <2>2. ASSUME NEW l \in Leg, Checks(l) PROVE ConfirmationInv'
    BY <2>2, ChecksKeep
  <2>3. ASSUME NEW l \in Leg, Applies(l) PROVE ConfirmationInv'
    BY <2>3, AppliesKeep
  <2>4. CASE UserAnswers
    BY <2>4, AnswersKeep
  <2>5. CASE Others
    BY <2>5, OthersKeep
  <2>6. CASE UNCHANGED confirmationVars
    BY <2>6 DEF ConfirmationInv, TypeOK, Honest, OfferedBack, Consented, LandedAsShown,
      confirmationVars, State, Made, Approved, SummaryOn
  <2> QED
    BY <2>1, <2>2, <2>3, <2>4, <2>5, <2>6 DEF ConfirmationNext
<1> QED
  BY ConfirmationBegins, <1>1, PTL DEF ConfirmationSpec

\* Whatever clients resend, arguments drift and others write, what lands was shown with
\* its arguments and allowed, and is what was shown unless the documents changed between
\* the retry's check and its commit (confirmation.py, _call).
THEOREM WritesLandAsShown == ConfirmationSpec => []LandedAsShown
<1>1. ConfirmationInv => LandedAsShown
  BY DEF ConfirmationInv
<1> QED
  BY ConfirmationAlways, <1>1, PTL
===============================================================================
