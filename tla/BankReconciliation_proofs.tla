--------------------- MODULE BankReconciliation_proofs ---------------------
(***************************************************************************)
(* What TLAPS proves of BankReconciliation, for any number of calls and    *)
(* any number of faults and steps of the accountant.                       *)
(*                                                                         *)
(* The inductive invariant BankInv says of each call what its plan may     *)
(* look like (PlanInv), how far the loop is and what it has reported       *)
(* (OutcomeInv), which commands have written (WroteInv), which of its      *)
(* requests may still be on their way (MailInv), and what it has seen of   *)
(* the books that is true or was changed by others since (KnowInv).        *)
(***************************************************************************)
EXTENDS BankReconciliation, FiniteSetTheorems, SequenceTheorems, TLAPS

Material == [status : {"PROJECT", "CONFIRMED", "deleted"}, client : {"none", "company"},
             rev : Nat]
Journal == [of : Row \cup {"hand"}, live : BOOLEAN, good : BOOLEAN]
Command == {"client", "confirm", "delete", "mirror"}
Message == [call : Call, op : Command, row : Row, rev : Nat]
Part == {"completed", "failed", "indeterminate"}
Stop == {"none", "plan_drift", "mutation_failed", "mutation_indeterminate"}

PairPlans == {<<"confirm", "delete">>, <<"client", "confirm", "delete">>}
RowPlans == {<<"confirm">>, <<"client", "confirm">>, <<"mirror">>}

(* A plan with commands binds the material of one pending row or of both. *)
IsPlan(p) ==
    \/ p = NoPlan
    \/ /\ p.source \in Row
       /\ \A r \in DOMAIN p.material : p.material[r] \in Material /\ p.material[r].status = "PROJECT"
       /\ \/ p.ops = << >>
          \/ p.ops \in PairPlans /\ DOMAIN p.material = Row
          \/ p.ops \in RowPlans /\ DOMAIN p.material = {p.source}

TypeOK ==
    /\ rows \in [Row -> Material]
    /\ journals \in Seq(Journal)
    /\ mail \in SUBSET Message
    /\ step \in [Call -> Step]
    /\ DOMAIN seen = Call
    /\ DOMAIN review = Call /\ DOMAIN plan = Call
    /\ outcome \in [Call -> Seq(Part)]
    /\ mayHave \in [Call -> BOOLEAN]
    /\ stop \in [Call -> Stop]
    /\ answer \in [Call -> {"none", "ok", "rejected"}]
    /\ wrote \in [Call -> SUBSET Command]
    /\ stale \in [Call -> SUBSET (Row \cup {"journals"})]
    /\ foreign \in Nat /\ faults \in Nat

Before == {"list", "match", "reviewed", "refused"}
Running == Looks \cup {"sent", "recover"}

PlanInv(c) ==
    /\ step[c] = "match" => seen[c] \in [Row -> Material]
    /\ IsPlan(review[c]) /\ IsPlan(plan[c])
    /\ step[c] \in {"list", "match", "reviewed"} => review[c] = NoPlan \/ review[c].ops # << >>
    /\ step[c] = "reviewed" => review[c] # NoPlan
    /\ step[c] \in Before => plan[c] = NoPlan /\ outcome[c] = << >> /\ wrote[c] = {}
    /\ step[c] \in Running => Len(outcome[c]) < Len(plan[c].ops)
    /\ step[c] = "source" => Op(c) = "delete"
    /\ step[c] \in {"review", "recover"} => Op(c) = "confirm"
    /\ step[c] \in {"journals", "row"} => Op(c) = "mirror"

OutcomeInv(c) ==
    /\ Len(outcome[c]) <= Len(plan[c].ops)
    /\ \A i \in 1..Len(outcome[c]) :
          outcome[c][i] = "completed" \/ (i = Len(outcome[c]) /\ step[c] = "over")
    /\ mayHave[c] = \E i \in 1..Len(outcome[c]) : outcome[c][i] # "failed"
    /\ step[c] # "over" => stop[c] = "none"
    /\ step[c] = "over" /\ stop[c] = "none" => Len(outcome[c]) = Len(plan[c].ops)

WroteInv(c) ==
    /\ \A i \in 1..Len(outcome[c]) : outcome[c][i] = "completed" => plan[c].ops[i] \in wrote[c]
    /\ \A i \in 1..Len(plan[c].ops) : plan[c].ops[i] \in wrote[c] =>
          \/ i \in 1..Len(outcome[c]) /\ outcome[c][i] # "failed"
          \/ i = Len(outcome[c]) + 1 /\ step[c] \in {"sent", "recover", "lost"}
    /\ step[c] = "sent" => (Op(c) \in wrote[c] <=> answer[c] = "ok")

MailInv(c) ==
    \A m \in mail : m.call = c =>
        /\ \E i \in 1..Len(plan[c].ops) :
              /\ plan[c].ops[i] = m.op
              /\ i <= Len(outcome[c])
                    \/ (i = Len(outcome[c]) + 1 /\ step[c] \in {"sent", "recover", "lost"})
        /\ m.row = IF m.op = "delete" THEN Other(plan[c].source) ELSE plan[c].source
        /\ \/ step[c] = "sent" /\ m.op = Op(c) /\ answer[c] = "none"
           \/ m.op = "confirm" /\ ~(step[c] = "sent" /\ m.op = Op(c))
           \/ /\ step[c] = "over" /\ outcome[c] # << >>
              /\ outcome[c][Len(outcome[c])] = "indeterminate"
              /\ plan[c].ops[Len(outcome[c])] = m.op
           \/ step[c] = "lost"

(* The registration of row r moves the money. *)
Moves(r) == \E i \in Registrations(r) : journals[i].good

(* The request of the command at hand is on its way. *)
OnItsWay(c) == \E m \in mail : m.call = c /\ m.op = Op(c)

SentFor(c, op) == step[c] = "sent" /\ Op(c) = op /\ OnItsWay(c)

(* No journal booked the transfer when the execute matched the rows. *)
Unbooked(c) == Booking(journals) = {} \/ "journals" \in stale[c]

ConfirmsLater(c) ==
    \/ step[c] \in Looks /\ Op(c) \in {"client", "confirm"}
    \/ step[c] = "sent" /\ Op(c) = "client"
    \/ SentFor(c, "confirm")

(* The mirror of a pair was found pending before the source is confirmed. *)
OtherPending(c) ==
    Pair(c) => \/ rows[Other(plan[c].source)].status = "PROJECT"
               \/ Other(plan[c].source) \in stale[c]

SourcePending(c) == rows[plan[c].source].status = "PROJECT" \/ plan[c].source \in stale[c]

(* Before the mirror is deleted the registration of the row was found. *)
MovedBy(c, r) == Moves(r) \/ "journals" \in stale[c]

DeletesLater(c) ==
    step[c] = "source" \/ (step[c] \in {"other", "sent"} /\ Op(c) = "delete")

RemovesLater(c) == step[c] = "row" \/ (step[c] = "sent" /\ Op(c) = "mirror")

AsReviewed(c, r) == rows[r] = plan[c].material[r] \/ r \in stale[c]

KnowInv(c) ==
    /\ ConfirmsLater(c) => Unbooked(c)
    /\ step[c] = "review" \/ SentFor(c, "confirm") => OtherPending(c)
    /\ SentFor(c, "confirm") => SourcePending(c)
    /\ DeletesLater(c) => MovedBy(c, plan[c].source)
    /\ SentFor(c, "delete") => AsReviewed(c, Other(plan[c].source))
    /\ RemovesLater(c) => MovedBy(c, Other(plan[c].source))
    /\ SentFor(c, "mirror") => AsReviewed(c, plan[c].source)

(* A command is sent once. *)
SentOnce == \A m, n \in mail : m.call = n.call /\ m.op = n.op => m = n

CallInv(c) == PlanInv(c) /\ OutcomeInv(c) /\ WroteInv(c) /\ MailInv(c) /\ KnowInv(c)

BankInv == TypeOK /\ SentOnce /\ \A c \in Call : CallInv(c)

-----------------------------------------------------------------------------
(* The plans. *)

LEMMA InFront ==
    ASSUME NEW S, NEW x \in S, NEW rest \in Seq(S), NEW whole \in Seq(S),
           Len(whole) = Len(rest) + 1, whole[1] = x,
           \A i \in 1..Len(rest) : whole[i + 1] = rest[i]
    PROVE  <<x>> \o rest = whole
<1>1. PICK u : u = <<x>> \o rest
  OBVIOUS
<1>2. <<x>> \in Seq(S) /\ Len(<<x>>) = 1 /\ <<x>>[1] = x
  OBVIOUS
<1>3. /\ u \in Seq(S) /\ Len(u) = Len(rest) + 1 /\ u[1] = x
      /\ \A i \in 1..Len(rest) : u[i + 1] = rest[i]
  BY <1>1, <1>2, ConcatProperties
<1>4. \A i \in 1..Len(u) : u[i] = whole[i]
  <2> SUFFICES ASSUME NEW i \in 1..Len(u) PROVE u[i] = whole[i]
    OBVIOUS
  <2>1. CASE i = 1
    BY <1>3, <2>1
  <2>2. CASE i # 1
    <3>1. i - 1 \in 1..Len(rest) /\ (i - 1) + 1 = i
      BY <1>3, <2>2
    <3> QED BY <1>3, <3>1
  <2> QED BY <2>1, <2>2
<1> QED BY <1>1, <1>3, <1>4, SeqEqual

(* A row without a client gets the company's before it is confirmed. *)
LEMMA CommandsOfRow ==
    ASSUME NEW view, NEW r
    PROVE  /\ Ops(view, r, <<"confirm">>) \in {<<"confirm">>, <<"client", "confirm">>}
           /\ Ops(view, r, <<"confirm", "delete">>) \in PairPlans
<1>1. << >> \o <<"confirm">> = <<"confirm">>
  BY ConcatEmptySeq, <<"confirm">> \in Seq(Command) DEF Command
<1>2. << >> \o <<"confirm", "delete">> = <<"confirm", "delete">>
  BY ConcatEmptySeq, <<"confirm", "delete">> \in Seq(Command) DEF Command
<1>3. <<"client">> \o <<"confirm">> = <<"client", "confirm">>
  <2>1. PICK rest, whole : rest = <<"confirm">> /\ whole = <<"client", "confirm">>
    OBVIOUS
  <2>2. /\ rest \in Seq(Command) /\ whole \in Seq(Command)
        /\ Len(rest) = 1 /\ Len(whole) = 2 /\ whole[1] = "client" /\ whole[1 + 1] = rest[1]
    BY <2>1 DEF Command
  <2>3. <<"client">> \o rest = whole
    BY <2>2, InFront DEF Command
  <2> QED BY <2>1, <2>3
<1>4. <<"client">> \o <<"confirm", "delete">> = <<"client", "confirm", "delete">>
  <2>1. PICK rest, whole : /\ rest = <<"confirm", "delete">>
                           /\ whole = <<"client", "confirm", "delete">>
    OBVIOUS
  <2>2. /\ rest \in Seq(Command) /\ whole \in Seq(Command)
        /\ Len(rest) = 2 /\ Len(whole) = 3 /\ whole[1] = "client"
        /\ whole[1 + 1] = rest[1] /\ whole[2 + 1] = rest[2]
    BY <2>1 DEF Command
  <2>3. \A i \in 1..Len(rest) : whole[i + 1] = rest[i]
    BY <2>2
  <2>4. "client" \in Command /\ Len(whole) = Len(rest) + 1
    BY <2>2 DEF Command
  <2>5. <<"client">> \o rest = whole
    BY <2>2, <2>3, <2>4, InFront
  <2> QED BY <2>1, <2>5
<1>5. CASE view[r].client = "none"
  BY <1>3, <1>4, <1>5, Zenon DEF Ops, PairPlans
<1>6. CASE view[r].client # "none"
  BY <1>1, <1>2, <1>6, Zenon DEF Ops, PairPlans
<1> QED BY <1>5, <1>6

(* What a matching may propose is a plan (runInterAccountMatching). *)
LEMMA MatchedIsPlan ==
    ASSUME NEW view \in [Row -> Material], NEW known
    PROVE  IsPlan(Matched(view, known))
<1> DEFINE pending == {r \in Row : view[r].status = "PROJECT"}
           booked  == Booking(known)
           source  == IF "out" \in pending THEN "out" ELSE "in"
           mirror  == MirrorOps(source, known[First(booked)])
           ops == CASE booked # {} /\ pending = Row -> << >>
                    [] booked # {} /\ pending # Row -> mirror
                    [] booked = {} /\ pending = Row -> PairOps(view)
                    [] OTHER -> Ops(view, source, <<"confirm">>)
           found == [ops |-> ops, source |-> source, material |-> [r \in pending |-> view[r]],
                     journal |-> IF booked = {} THEN 0 ELSE First(booked)]
<1>1. Matched(view, known) = IF pending = {} THEN NoPlan ELSE found
  BY DEF Matched
<1>2. CASE pending = {}
  BY <1>1, <1>2 DEF IsPlan
<1>3. CASE pending # {}
  <2>1. Matched(view, known) = found
    BY <1>1, <1>3
  <2>2. /\ found.ops = ops /\ found.source = source
        /\ found.material = [r \in pending |-> view[r]]
    OBVIOUS
  <2>3. source \in Row /\ source \in pending /\ pending \subseteq Row
    BY <1>3 DEF Row
  <2>4. pending = Row \/ pending = {source}
    BY <2>3 DEF Row
  <2>5. \A r \in pending : view[r] \in Material /\ view[r].status = "PROJECT"
    BY <2>3
  <2>6. mirror \in {<< >>, <<"mirror">>}
    BY DEF MirrorOps
  <2>7. PairOps(view) \in PairPlans
    BY CommandsOfRow DEF PairOps
  <2>8. Ops(view, source, <<"confirm">>) \in RowPlans
    BY CommandsOfRow DEF RowPlans
  <2> HIDE DEF mirror
  <2>9. CASE pending = Row
    <3>1. ops \in {<< >>} \cup PairPlans
      BY <2>7, <2>9
    <3> HIDE DEF ops
    <3> QED BY <2>1, <2>2, <2>3, <2>5, <2>9, <3>1 DEF IsPlan
  <2>10. CASE pending = {source} /\ pending # Row
    <3>1. ops \in {<< >>} \cup RowPlans
      BY <2>6, <2>8, <2>10 DEF RowPlans
    <3> HIDE DEF ops
    <3> QED BY <2>1, <2>2, <2>3, <2>5, <2>10, <3>1 DEF IsPlan
  <2> QED BY <2>4, <2>9, <2>10
<1> QED BY <1>2, <1>3

(* A transfer is proposed for confirmation only when no journal books it. *)
LEMMA ConfirmedWhenUnbooked ==
    ASSUME NEW view \in [Row -> Material], NEW known, NEW i,
           Matched(view, known).ops[i] \in {"client", "confirm"},
           i \in 1..Len(Matched(view, known).ops)
    PROVE  Booking(known) = {}
<1> DEFINE pending == {r \in Row : view[r].status = "PROJECT"}
           booked  == Booking(known)
           source  == IF "out" \in pending THEN "out" ELSE "in"
           mirror  == MirrorOps(source, known[First(booked)])
           ops == CASE booked # {} /\ pending = Row -> << >>
                    [] booked # {} /\ pending # Row -> mirror
                    [] booked = {} /\ pending = Row -> PairOps(view)
                    [] OTHER -> Ops(view, source, <<"confirm">>)
           found == [ops |-> ops, source |-> source, material |-> [r \in pending |-> view[r]],
                     journal |-> IF booked = {} THEN 0 ELSE First(booked)]
<1>1. SUFFICES ASSUME booked # {} PROVE FALSE
  OBVIOUS
<1>2. Matched(view, known) = IF pending = {} THEN NoPlan ELSE found
  BY DEF Matched
<1>3. mirror \in {<< >>, <<"mirror">>}
  BY DEF MirrorOps
<1>4. ops \in {<< >>, <<"mirror">>}
  BY <1>1, <1>3
<1>5. Matched(view, known).ops \in {<< >>, <<"mirror">>}
  <2> HIDE DEF ops
  <2> QED BY <1>2, <1>4 DEF NoPlan
<1> QED BY <1>5

(* The commands of a plan: no two are the same, a client update comes right before
   the confirmation, which only a deletion follows, and what deletes comes last. *)
LEMMA PlanOrder ==
    ASSUME NEW p, IsPlan(p)
    PROVE  /\ p.source \in Row
           /\ Len(p.ops) \in 0..3
           /\ \A i \in 1..Len(p.ops) :
                 /\ p.ops[i] \in Command
                 /\ p.source \in DOMAIN p.material
                 /\ p.material[p.source].status = "PROJECT"
                 /\ p.ops[i] = "client" => i + 1 \in 1..Len(p.ops) /\ p.ops[i + 1] = "confirm"
                 /\ i + 1 \in 1..Len(p.ops) /\ p.ops[i] = "confirm" => p.ops[i + 1] = "delete"
                 /\ p.ops[i] \in {"delete", "mirror"} => i = Len(p.ops)
                 /\ p.ops[i] = "delete" => DOMAIN p.material = Row
                 /\ p.ops[i] = "mirror" => i = 1
                 /\ \A j \in 1..Len(p.ops) : p.ops[i] = p.ops[j] => i = j
<1>1. CASE p = NoPlan
  BY <1>1 DEF NoPlan, Row
<1>2. CASE p # NoPlan /\ p.ops = << >>
  BY <1>2 DEF IsPlan
<1>3. CASE p # NoPlan /\ p.ops \in PairPlans
  <2>1. p.source \in DOMAIN p.material /\ p.material[p.source].status = "PROJECT" /\ p.source \in Row
    BY <1>3 DEF IsPlan, PairPlans, RowPlans
  <2>2. DOMAIN p.material = Row
    BY <1>3 DEF IsPlan, PairPlans, RowPlans
  <2>3. CASE p.ops = <<"confirm", "delete">>
    BY <2>1, <2>2, <2>3 DEF Command
  <2>4. CASE p.ops = <<"client", "confirm", "delete">>
    BY <2>1, <2>2, <2>4 DEF Command
  <2> QED BY <1>3, <2>3, <2>4 DEF PairPlans
<1>4. CASE p # NoPlan /\ p.ops \in RowPlans
  <2>1. p.source \in DOMAIN p.material /\ p.material[p.source].status = "PROJECT" /\ p.source \in Row
    BY <1>4 DEF IsPlan, PairPlans, RowPlans
  <2>2. CASE p.ops = <<"confirm">>
    BY <2>1, <2>2 DEF Command
  <2>3. CASE p.ops = <<"client", "confirm">>
    BY <2>1, <2>3 DEF Command
  <2>4. CASE p.ops = <<"mirror">>
    BY <2>1, <2>4 DEF Command
  <2> QED BY <1>4, <2>2, <2>3, <2>4 DEF RowPlans
<1> QED BY <1>1, <1>2, <1>3, <1>4 DEF IsPlan

(* Only a plan for both rows binds two. *)
LEMMA PairHasBothRows ==
    ASSUME NEW c \in Call, IsPlan(plan[c]), plan[c].ops # << >>, Pair(c)
    PROVE  DOMAIN plan[c].material = Row
<1>1. plan[c] # NoPlan
  BY DEF NoPlan
<1>2. CASE DOMAIN plan[c].material = {plan[c].source}
  <2>1. Cardinality({plan[c].source}) = 1
    BY FS_Singleton
  <2> QED BY <1>2, <2>1 DEF Pair
<1> QED BY <1>1, <1>2 DEF IsPlan

-----------------------------------------------------------------------------
(* What a step leaves alone. *)

LoopInv(c) == PlanInv(c) /\ OutcomeInv(c) /\ WroteInv(c) /\ MailInv(c)

SameMail(c) == \A m \in mail \cup mail' : m.call = c => (m \in mail <=> m \in mail')

OwnUnchanged(c) ==
    /\ step'[c] = step[c] /\ seen'[c] = seen[c] /\ review'[c] = review[c] /\ plan'[c] = plan[c]
    /\ outcome'[c] = outcome[c] /\ mayHave'[c] = mayHave[c] /\ stop'[c] = stop[c]
    /\ answer'[c] = answer[c] /\ wrote'[c] = wrote[c]
    /\ SameMail(c)

(* What changes in the books while c looks or waits is stale for c. *)
BooksKept(c) ==
    step[c] \in Running =>
        /\ \A r \in Row : rows'[r] = rows[r] \/ r \in stale'[c]
        /\ journals' = journals \/ "journals" \in stale'[c]
        /\ stale[c] \subseteq stale'[c]

LEMMA LoopKept ==
    ASSUME NEW c \in Call, LoopInv(c), OwnUnchanged(c)
    PROVE  LoopInv(c)'
<1> USE DEF OwnUnchanged
<1>1. Op(c)' = Op(c)
  BY DEF Op
<1>2. PlanInv(c)'
  BY <1>1, Zenon DEF LoopInv, PlanInv
<1>3. OutcomeInv(c)'
  BY DEF LoopInv, OutcomeInv
<1>4. WroteInv(c)'
  BY <1>1 DEF LoopInv, WroteInv
<1>5. MailInv(c)'
  <2> SUFFICES ASSUME NEW m \in mail', m.call = c PROVE MailInv(c)!(m)'
    BY DEF MailInv
  <2>1. m \in mail
    BY DEF SameMail
  <2> QED BY <1>1, <2>1 DEF LoopInv, MailInv
<1> QED BY <1>2, <1>3, <1>4, <1>5 DEF LoopInv

(* What c has seen stays true or becomes stale for c. *)
LEMMA KnowKept ==
    ASSUME NEW c \in Call, PlanInv(c), KnowInv(c), BooksKept(c),
           step'[c] = step[c], plan'[c] = plan[c], outcome'[c] = outcome[c],
           OnItsWay(c)' => OnItsWay(c)
    PROVE  KnowInv(c)'
<1>1. Op(c)' = Op(c)
  BY DEF Op
<1>2. ASSUME NEW op PROVE SentFor(c, op)' => SentFor(c, op)
  BY <1>1 DEF SentFor
<1>3. plan[c].source \in Row /\ Other(plan[c].source) \in Row
  BY PlanOrder DEF PlanInv, Other, Row
<1>4. ASSUME step[c] \in Running
      PROVE  /\ Unbooked(c) => Unbooked(c)'
             /\ \A r \in Row : MovedBy(c, r) => MovedBy(c, r)'
             /\ \A r \in Row : AsReviewed(c, r) => AsReviewed(c, r)'
             /\ \A r \in Row : rows[r].status = "PROJECT" \/ r \in stale[c]
                                  => rows'[r].status = "PROJECT" \/ r \in stale'[c]
  <2>1. /\ \A r \in Row : rows'[r] = rows[r] \/ r \in stale'[c]
        /\ journals' = journals \/ "journals" \in stale'[c]
        /\ stale[c] \subseteq stale'[c]
    BY <1>4 DEF BooksKept
  <2>2. Unbooked(c) => Unbooked(c)'
    BY <2>1 DEF Unbooked, Booking
  <2>3. \A r \in Row : MovedBy(c, r) => MovedBy(c, r)'
    BY <2>1 DEF MovedBy, Moves, Registrations
  <2>4. \A r \in Row : AsReviewed(c, r) => AsReviewed(c, r)'
    BY <2>1 DEF AsReviewed
  <2> QED BY <2>1, <2>2, <2>3, <2>4
<1>5. Pair(c)' = Pair(c)
  BY DEF Pair
<1>6. ASSUME step[c] \in Running
      PROVE  /\ OtherPending(c) => OtherPending(c)'
             /\ SourcePending(c) => SourcePending(c)'
  BY <1>3, <1>4, <1>5, <1>6 DEF OtherPending, SourcePending
<1>7. /\ ConfirmsLater(c)' => ConfirmsLater(c) /\ step[c] \in Running
      /\ DeletesLater(c)' => DeletesLater(c) /\ step[c] \in Running
      /\ RemovesLater(c)' => RemovesLater(c) /\ step[c] \in Running
      /\ \A op : SentFor(c, op)' => step[c] \in Running
      /\ step'[c] = "review" => step[c] \in Running
  BY <1>1, <1>2 DEF ConfirmsLater, DeletesLater, RemovesLater, SentFor, Running, Looks
<1>8. SentFor(c, "confirm")' => SentFor(c, "confirm")
  BY <1>2
<1>9. SentFor(c, "delete")' => SentFor(c, "delete")
  BY <1>2
<1>10. SentFor(c, "mirror")' => SentFor(c, "mirror")
  BY <1>2
<1>11. ConfirmsLater(c)' => Unbooked(c)'
  BY <1>4, <1>7 DEF KnowInv
<1>12. (step[c] = "review" \/ SentFor(c, "confirm"))' => OtherPending(c)'
  BY <1>6, <1>7, <1>8 DEF KnowInv
<1>13. SentFor(c, "confirm")' => SourcePending(c)'
  BY <1>6, <1>7, <1>8 DEF KnowInv
<1>14. DeletesLater(c)' => MovedBy(c, plan[c].source)'
  BY <1>3, <1>4, <1>7 DEF KnowInv
<1>15. SentFor(c, "delete")' => AsReviewed(c, Other(plan[c].source))'
  BY <1>3, <1>4, <1>7, <1>9 DEF KnowInv
<1>16. RemovesLater(c)' => MovedBy(c, Other(plan[c].source))'
  BY <1>3, <1>4, <1>7 DEF KnowInv
<1>17. SentFor(c, "mirror")' => AsReviewed(c, plan[c].source)'
  BY <1>3, <1>4, <1>7, <1>10 DEF KnowInv
<1> QED BY <1>11, <1>12, <1>13, <1>14, <1>15, <1>16, <1>17 DEF KnowInv

LEMMA CallKept ==
    ASSUME NEW c \in Call, CallInv(c), OwnUnchanged(c), BooksKept(c)
    PROVE  CallInv(c)'
<1>1. LoopInv(c)'
  BY LoopKept DEF CallInv, LoopInv
<1>2. OnItsWay(c)' => OnItsWay(c)
  <2>1. Op(c)' = Op(c)
    BY DEF OwnUnchanged, Op
  <2> QED BY <2>1 DEF OnItsWay, OwnUnchanged, SameMail
<1>3. KnowInv(c)'
  BY <1>2, KnowKept DEF CallInv, OwnUnchanged
<1> QED BY <1>1, <1>3 DEF CallInv, LoopInv

(* A step of c leaves the invariant of the others. *)
LEMMA Alone ==
    ASSUME BankInv, NEW c \in Call, TypeOK', SentOnce', LoopInv(c)', KnowInv(c)',
           \A d \in Call \ {c} : OwnUnchanged(d) /\ BooksKept(d)
    PROVE  BankInv'
<1>1. ASSUME NEW d \in Call PROVE CallInv(d)'
  <2>1. CASE d = c
    BY <2>1 DEF CallInv, LoopInv
  <2>2. CASE d # c
    BY <2>2, CallKept DEF BankInv
  <2> QED BY <2>1, <2>2
<1> QED BY <1>1 DEF BankInv

-----------------------------------------------------------------------------
(* The loop of runPlanCommands. *)

(* The command at hand is one of the plan and no other command is the same. *)
LEMMA AtHand ==
    ASSUME BankInv, NEW c \in Call, step[c] \in Running
    PROVE  /\ outcome[c] \in Seq(Part) /\ Len(outcome[c]) \in Nat
           /\ Len(outcome[c]) + 1 \in 1..Len(plan[c].ops)
           /\ Op(c) \in Command
           /\ \A i \in 1..Len(plan[c].ops) : plan[c].ops[i] = Op(c) => i = Len(outcome[c]) + 1
           /\ \A i \in 1..Len(outcome[c]) : outcome[c][i] = "completed"
           /\ stop[c] = "none"
           /\ IsPlan(plan[c]) /\ plan[c].ops # << >> /\ plan[c].source \in Row
           /\ CallInv(c)
<1>1. CallInv(c)
  BY DEF BankInv
<1>2. outcome[c] \in Seq(Part) /\ Len(outcome[c]) \in Nat
  BY DEF BankInv, TypeOK
<1>3. IsPlan(plan[c]) /\ Len(outcome[c]) < Len(plan[c].ops)
  BY <1>1 DEF CallInv, PlanInv
<1>4. Len(plan[c].ops) \in 0..3 /\ plan[c].source \in Row
  BY <1>3, PlanOrder
<1>5. Len(outcome[c]) + 1 \in 1..Len(plan[c].ops)
  BY <1>2, <1>3, <1>4
<1>6. Op(c) \in Command
  BY <1>3, <1>5, PlanOrder DEF Op
<1>7. \A i \in 1..Len(plan[c].ops) : plan[c].ops[i] = Op(c) => i = Len(outcome[c]) + 1
  BY <1>3, <1>5, PlanOrder DEF Op
<1>8. step[c] # "over"
  BY DEF Running, Looks
<1>9. stop[c] = "none" /\ \A i \in 1..Len(outcome[c]) : outcome[c][i] = "completed"
  BY <1>1, <1>8 DEF CallInv, OutcomeInv
<1>10. plan[c].ops # << >>
  BY <1>5
<1> QED BY <1>1, <1>2, <1>3, <1>4, <1>5, <1>6, <1>7, <1>9, <1>10

(* The run stops: what is reported failed was not written and will not be, unless it
   is a confirmation whose row was read. *)
LEMMA Halts ==
    ASSUME BankInv, NEW c \in Call, step[c] \in Running,
           NEW part \in {"failed", "indeterminate"}, NEW reason \in Stop \ {"none"},
           Halt(c, part, reason),
           UNCHANGED <<rows, journals, mail, seen, review, plan, foreign>>, faults' \in Nat,
           answer' \in [Call -> {"none", "ok", "rejected"}],
           wrote' \in [Call -> SUBSET Command],
           stale' \in [Call -> SUBSET (Row \cup {"journals"})],
           \A d \in Call \ {c} : /\ answer'[d] = answer[d] /\ wrote'[d] = wrote[d]
                                 /\ stale'[d] = stale[d],
           \A op \in Command \ {Op(c)} : op \in wrote'[c] <=> op \in wrote[c],
           part = "failed" => Op(c) \notin wrote'[c],
           \A m \in mail : m.call = c /\ m.op = Op(c) =>
               part = "indeterminate" \/ m.op = "confirm"
    PROVE  BankInv'
<1>1. /\ outcome[c] \in Seq(Part) /\ Len(outcome[c]) \in Nat
      /\ Len(outcome[c]) + 1 \in 1..Len(plan[c].ops)
      /\ \A i \in 1..Len(plan[c].ops) : plan[c].ops[i] = Op(c) => i = Len(outcome[c]) + 1
      /\ \A i \in 1..Len(outcome[c]) : outcome[c][i] = "completed"
      /\ IsPlan(plan[c])
      /\ CallInv(c)
  BY AtHand
<1>2. TypeOK
  BY DEF BankInv
<1>3. /\ outcome' = [outcome EXCEPT ![c] = Append(outcome[c], part)]
      /\ stop' = [stop EXCEPT ![c] = reason]
      /\ mayHave' = [mayHave EXCEPT ![c] = mayHave[c] \/ part = "indeterminate"]
      /\ step' = [step EXCEPT ![c] = "over"]
  BY DEF Halt, Goto
<1>4. part \in Part
  BY DEF Part
<1>5. PICK n \in Nat : n = Len(outcome[c])
  BY <1>1
<1>6. /\ outcome'[c] \in Seq(Part) /\ outcome'[c] # << >>
      /\ Len(outcome'[c]) = n + 1
      /\ outcome'[c][n + 1] = part
      /\ \A i \in 1..n : outcome'[c][i] = "completed"
  <2>1. outcome'[c] = Append(outcome[c], part)
    BY <1>2, <1>3 DEF TypeOK
  <2> QED BY <1>1, <1>4, <1>5, <2>1, AppendProperties
<1>7. step'[c] = "over" /\ stop'[c] = reason /\ plan'[c] = plan[c]
  BY <1>2, <1>3 DEF TypeOK
<1>8. mayHave'[c] = (mayHave[c] \/ part = "indeterminate")
  BY <1>2, <1>3 DEF TypeOK
<1>9. TypeOK'
  <2>1. outcome' \in [Call -> Seq(Part)]
    BY <1>2, <1>3, <1>6 DEF TypeOK
  <2>2. stop' \in [Call -> Stop]
    BY <1>2, <1>3 DEF TypeOK
  <2>3. mayHave' \in [Call -> BOOLEAN]
    BY <1>2, <1>3 DEF TypeOK
  <2>4. step' \in [Call -> Step]
    BY <1>2, <1>3 DEF TypeOK, Step, Ended
  <2> QED BY <1>2, <2>1, <2>2, <2>3, <2>4 DEF TypeOK
<1>10. SentOnce'
  BY DEF BankInv, SentOnce
<1>11. PlanInv(c)'
  BY <1>1, <1>7 DEF CallInv, PlanInv, Before, Running, Looks
<1>12. OutcomeInv(c)'
  <2>1. n + 1 <= Len(plan[c].ops)
    BY <1>1, <1>5
  <2>2. mayHave'[c] = \E i \in 1..(n + 1) : outcome'[c][i] # "failed"
    <3>1. mayHave[c] = \E i \in 1..n : outcome[c][i] # "failed"
      BY <1>1, <1>5 DEF CallInv, OutcomeInv
    <3>2. mayHave[c] <=> n > 0
      BY <1>1, <1>5, <3>1
    <3>3. (\E i \in 1..(n + 1) : outcome'[c][i] # "failed") <=> n > 0 \/ part = "indeterminate"
      BY <1>6
    <3> QED BY <1>8, <3>2, <3>3
  <2> QED BY <1>6, <1>7, <2>1, <2>2 DEF OutcomeInv
<1>13. \A i \in 1..Len(plan[c].ops) : plan[c].ops[i] \in Command
  BY <1>1, PlanOrder
<1>14. WroteInv(c)'
  <2>1. \A i \in 1..(n + 1) : outcome'[c][i] = "completed" => plan[c].ops[i] \in wrote'[c]
    <3> SUFFICES ASSUME NEW i \in 1..(n + 1), outcome'[c][i] = "completed"
                 PROVE  plan[c].ops[i] \in wrote'[c]
      OBVIOUS
    <3>1. i \in 1..n /\ i # n + 1
      BY <1>6
    <3>2. plan[c].ops[i] \in wrote[c]
      BY <1>1, <1>5, <3>1 DEF CallInv, WroteInv
    <3> QED BY <1>1, <1>5, <1>13, <3>1, <3>2
  <2>2. \A i \in 1..Len(plan[c].ops) : plan[c].ops[i] \in wrote'[c] =>
            i \in 1..(n + 1) /\ outcome'[c][i] # "failed"
    <3> SUFFICES ASSUME NEW i \in 1..Len(plan[c].ops), plan[c].ops[i] \in wrote'[c]
                 PROVE  i \in 1..(n + 1) /\ outcome'[c][i] # "failed"
      OBVIOUS
    <3>1. CASE i = n + 1
      BY <1>5, <1>6, <3>1 DEF Op
    <3>2. CASE i # n + 1
      <4>1. plan[c].ops[i] \in wrote[c]
        BY <1>1, <1>5, <1>13, <3>2
      <4>2. i \in 1..n
        BY <1>1, <1>5, <3>2, <4>1 DEF CallInv, WroteInv
      <4> QED BY <1>6, <4>2
    <3> QED BY <3>1, <3>2
  <2> QED BY <1>6, <1>7, <2>1, <2>2 DEF WroteInv
<1>15. MailInv(c)'
  <2> SUFFICES ASSUME NEW m \in mail', m.call = c PROVE MailInv(c)!(m)'
    BY DEF MailInv
  <2>1. m \in mail
    OBVIOUS
  <2>2. PICK i \in 1..Len(plan[c].ops) : plan[c].ops[i] = m.op /\ i <= n + 1
    BY <1>1, <1>5, <2>1 DEF CallInv, MailInv
  <2>3. m.row = IF m.op = "delete" THEN Other(plan[c].source) ELSE plan[c].source
    BY <1>1, <2>1 DEF CallInv, MailInv
  <2>4. m.op = "confirm" \/ (part = "indeterminate" /\ plan[c].ops[n + 1] = m.op)
    <3>1. CASE m.op = Op(c)
      BY <1>5, <2>1, <3>1 DEF Op
    <3>2. CASE m.op # Op(c)
      BY <1>1, <2>1, <3>2 DEF CallInv, MailInv, Running, Looks
    <3> QED BY <3>1, <3>2
  <2> QED BY <1>6, <1>7, <2>2, <2>3, <2>4 DEF Op
<1>16. KnowInv(c)'
  BY <1>7 DEF KnowInv, ConfirmsLater, DeletesLater, RemovesLater, SentFor, Looks
<1>17. \A d \in Call \ {c} : OwnUnchanged(d) /\ BooksKept(d)
  BY <1>2, <1>3 DEF OwnUnchanged, SameMail, BooksKept, TypeOK
<1> QED BY <1>9, <1>10, <1>11, <1>12, <1>14, <1>15, <1>16, <1>17, Alone DEF LoopInv

(* The command is done and the loop goes on: after the client comes the confirmation,
   and what was seen for it holds on. *)
LEMMA Proceeds ==
    ASSUME BankInv, NEW c \in Call, step[c] \in {"sent", "recover"},
           Proceed(c, "completed"),
           UNCHANGED <<rows, journals, mail, seen, review, plan, foreign>>, faults' \in Nat,
           answer' \in [Call -> {"none", "ok", "rejected"}],
           wrote' \in [Call -> SUBSET Command],
           stale' \in [Call -> SUBSET (Row \cup {"journals"})],
           \A d \in Call \ {c} : /\ answer'[d] = answer[d] /\ wrote'[d] = wrote[d]
                                 /\ stale'[d] = stale[d],
           \A op \in Command \ {Op(c)} : op \in wrote'[c] <=> op \in wrote[c],
           Op(c) \in wrote'[c],
           \A m \in mail : m.call = c /\ m.op = Op(c) => m.op = "confirm",
           Op(c) = "confirm" \/ (step[c] = "sent" /\ stale' = stale)
    PROVE  BankInv'
<1>1. /\ outcome[c] \in Seq(Part) /\ Len(outcome[c]) \in Nat
      /\ Len(outcome[c]) + 1 \in 1..Len(plan[c].ops)
      /\ \A i \in 1..Len(plan[c].ops) : plan[c].ops[i] = Op(c) => i = Len(outcome[c]) + 1
      /\ \A i \in 1..Len(outcome[c]) : outcome[c][i] = "completed"
      /\ IsPlan(plan[c]) /\ stop[c] = "none"
      /\ CallInv(c)
  BY AtHand DEF Running
<1>2. TypeOK
  BY DEF BankInv
<1>3. "completed" \in Part
  BY DEF Part
<1>4. PICK n \in Nat : n = Len(outcome[c])
  BY <1>1
<1>5. /\ outcome'[c] \in Seq(Part)
      /\ Len(outcome'[c]) = n + 1
      /\ \A i \in 1..(n + 1) : outcome'[c][i] = "completed"
  <2>1. outcome'[c] = Append(outcome[c], "completed")
    BY <1>2 DEF Proceed, TypeOK
  <2> QED BY <1>1, <1>3, <1>4, <2>1, AppendProperties
<1>6. /\ outcome' = [outcome EXCEPT ![c] = Append(outcome[c], "completed")]
      /\ stop' = stop
      /\ mayHave' = [mayHave EXCEPT ![c] = TRUE]
      /\ step' = [step EXCEPT ![c] = IF n + 1 = Len(plan[c].ops) THEN "over" ELSE "prepare"]
  BY <1>5 DEF Proceed, Goto
<1>7. /\ step'[c] = IF n + 1 = Len(plan[c].ops) THEN "over" ELSE "prepare"
      /\ stop'[c] = "none" /\ plan'[c] = plan[c] /\ mayHave'[c] = TRUE
  BY <1>1, <1>2, <1>6 DEF TypeOK
<1>8. Len(plan[c].ops) \in Nat /\ n + 1 <= Len(plan[c].ops)
  BY <1>1, <1>4, PlanOrder
<1>9. TypeOK'
  <2>1. outcome' \in [Call -> Seq(Part)]
    BY <1>2, <1>5, <1>6 DEF TypeOK
  <2>2. mayHave' \in [Call -> BOOLEAN]
    BY <1>2, <1>6 DEF TypeOK
  <2>3. step' \in [Call -> Step]
    BY <1>2, <1>6 DEF TypeOK, Step, Ended, Looks
  <2> QED BY <1>2, <1>6, <2>1, <2>2, <2>3 DEF TypeOK
<1>10. SentOnce'
  BY DEF BankInv, SentOnce
<1>11. PlanInv(c)'
  BY <1>1, <1>5, <1>7, <1>8 DEF CallInv, PlanInv, Before, Running, Looks
<1>12. OutcomeInv(c)'
  <2>1. mayHave'[c] = \E i \in 1..(n + 1) : outcome'[c][i] # "failed"
    <3>1. 1 \in 1..(n + 1) /\ outcome'[c][1] # "failed"
      BY <1>5
    <3> QED BY <1>7, <3>1
  <2> QED BY <1>5, <1>7, <1>8, <2>1 DEF OutcomeInv
<1>13. \A i \in 1..Len(plan[c].ops) : plan[c].ops[i] \in Command
  BY <1>1, PlanOrder
<1>14. WroteInv(c)'
  <2>1. \A i \in 1..(n + 1) : plan[c].ops[i] \in wrote'[c]
    <3> SUFFICES ASSUME NEW i \in 1..(n + 1) PROVE plan[c].ops[i] \in wrote'[c]
      OBVIOUS
    <3>1. CASE i = n + 1
      BY <1>4, <3>1 DEF Op
    <3>2. CASE i # n + 1
      <4>1. i \in 1..n /\ i \in 1..Len(plan[c].ops)
        BY <1>8, <3>2
      <4>2. plan[c].ops[i] \in wrote[c]
        BY <1>1, <1>4, <4>1 DEF CallInv, WroteInv
      <4> QED BY <1>1, <1>4, <1>13, <3>2, <4>1, <4>2
    <3> QED BY <3>1, <3>2
  <2>2. \A i \in 1..Len(plan[c].ops) : plan[c].ops[i] \in wrote'[c] => i \in 1..(n + 1)
    <3> SUFFICES ASSUME NEW i \in 1..Len(plan[c].ops), plan[c].ops[i] \in wrote'[c],
                        i # n + 1
                 PROVE  i \in 1..(n + 1)
      OBVIOUS
    <3>1. plan[c].ops[i] \in wrote[c]
      BY <1>1, <1>4, <1>13
    <3>2. i \in 1..n
      BY <1>1, <1>4, <3>1 DEF CallInv, WroteInv
    <3> QED BY <3>2
  <2> QED BY <1>5, <1>7, <2>1, <2>2 DEF WroteInv
<1>15. MailInv(c)'
  <2> SUFFICES ASSUME NEW m \in mail', m.call = c PROVE MailInv(c)!(m)'
    BY DEF MailInv
  <2>1. m \in mail
    OBVIOUS
  <2>2. PICK i \in 1..Len(plan[c].ops) : plan[c].ops[i] = m.op /\ i <= n + 1
    BY <1>1, <1>4, <2>1 DEF CallInv, MailInv
  <2>3. m.row = IF m.op = "delete" THEN Other(plan[c].source) ELSE plan[c].source
    BY <1>1, <2>1 DEF CallInv, MailInv
  <2>4. m.op = "confirm"
    <3>1. CASE m.op # Op(c)
      BY <1>1, <2>1, <3>1 DEF CallInv, MailInv
    <3> QED BY <2>1, <3>1
  <2> QED BY <1>5, <1>7, <2>2, <2>3, <2>4
<1>16. KnowInv(c)'
  <2>1. step'[c] \notin {"review", "source", "other", "row", "sent"}
    BY <1>7
  <2>2. SUFFICES ASSUME ConfirmsLater(c)' PROVE Unbooked(c)'
    BY <2>1 DEF KnowInv, DeletesLater, RemovesLater, SentFor
  <2>3. step'[c] = "prepare" /\ Op(c)' \in {"client", "confirm"}
    BY <1>7, <2>1, <2>2 DEF ConfirmsLater, SentFor, Looks
  <2>4. n + 1 + 1 \in 1..Len(plan[c].ops) /\ Op(c)' = plan[c].ops[n + 1 + 1]
    BY <1>5, <1>7, <1>8, <2>3 DEF Op
  <2>5. Op(c) = plan[c].ops[n + 1] /\ n + 1 \in 1..Len(plan[c].ops)
    BY <1>1, <1>4 DEF Op
  <2>6. plan[c].ops[n + 1] = "client"
    <3>1. Op(c) # "confirm"
      BY <1>1, <2>3, <2>4, <2>5, PlanOrder
    <3>2. Op(c) \notin {"delete", "mirror"}
      BY <1>1, <2>4, <2>5, PlanOrder
    <3>3. Op(c) \in Command
      BY <1>1, <2>5, PlanOrder
    <3> QED BY <2>5, <3>1, <3>2, <3>3 DEF Command
  <2>7. step[c] = "sent" /\ stale' = stale /\ Op(c) = "client"
    BY <2>5, <2>6
  <2>8. Unbooked(c)
    BY <1>1, <2>7 DEF CallInv, KnowInv, ConfirmsLater
  <2> QED BY <2>7, <2>8 DEF Unbooked, Booking
<1>17. \A d \in Call \ {c} : OwnUnchanged(d) /\ BooksKept(d)
  BY <1>2, <1>6 DEF OwnUnchanged, SameMail, BooksKept, TypeOK
<1> QED BY <1>9, <1>10, <1>11, <1>12, <1>14, <1>15, <1>16, <1>17, Alone DEF LoopInv

(* One look follows another. *)
LEMMA LooksOn ==
    ASSUME BankInv, NEW c \in Call, step[c] \in Looks, NEW next \in Looks \ {"prepare"},
           NEW thing, Goto(c, next), LookedAt(c, thing),
           UNCHANGED <<rows, journals, mail, seen, review, plan, report, answer, wrote, foreign,
                       faults>>,
           next = "source" => Op(c) = "delete",
           next = "review" => Op(c) = "confirm",
           next \in {"journals", "row"} => Op(c) = "mirror",
           KnowInv(c)'
    PROVE  BankInv'
<1>1. CallInv(c) /\ TypeOK
  BY DEF BankInv
<1>2. /\ step' = [step EXCEPT ![c] = next]
      /\ stale' = [stale EXCEPT ![c] = stale[c] \ {thing}]
      /\ outcome' = outcome /\ mayHave' = mayHave /\ stop' = stop
  BY DEF Goto, LookedAt, report
<1>3. step'[c] = next /\ step[c] \in Looks /\ Op(c)' = Op(c)
  BY <1>1, <1>2 DEF TypeOK, Op
<1>4. TypeOK'
  <2>1. step' \in [Call -> Step]
    BY <1>1, <1>2 DEF TypeOK, Step
  <2>2. stale' \in [Call -> SUBSET (Row \cup {"journals"})]
    BY <1>1, <1>2 DEF TypeOK
  <2> QED BY <1>1, <1>2, <2>1, <2>2 DEF TypeOK
<1>5. SentOnce'
  BY DEF BankInv, SentOnce
<1>6. PlanInv(c)'
  BY <1>1, <1>2, <1>3 DEF CallInv, PlanInv, Before, Running, Looks
<1>7. OutcomeInv(c)'
  BY <1>1, <1>2, <1>3 DEF CallInv, OutcomeInv, Looks
<1>8. WroteInv(c)'
  BY <1>1, <1>2, <1>3 DEF CallInv, WroteInv, Looks
<1>9. MailInv(c)'
  <2> SUFFICES ASSUME NEW m \in mail', m.call = c PROVE MailInv(c)!(m)'
    BY DEF MailInv
  <2> QED BY <1>1, <1>2, <1>3 DEF CallInv, MailInv, Looks
<1>10. \A d \in Call \ {c} : OwnUnchanged(d) /\ BooksKept(d)
  BY <1>1, <1>2 DEF OwnUnchanged, SameMail, BooksKept, TypeOK
<1> QED BY <1>4, <1>5, <1>6, <1>7, <1>8, <1>9, <1>10, Alone DEF LoopInv

(* The last look is followed by the request. *)
LEMMA Sends ==
    ASSUME BankInv, NEW c \in Call, step[c] \in Looks, NEW thing, Send(c), LookedAt(c, thing),
           UNCHANGED <<rows, journals, seen, review, plan, report, wrote, foreign, faults>>,
           KnowInv(c)'
    PROVE  BankInv'
<1>1. CallInv(c) /\ TypeOK
  BY DEF BankInv
<1>2. PICK new : new = [call |-> c, op |-> Op(c), row |-> Target(c), rev |-> Expected(c).rev]
  OBVIOUS
<1>3. /\ step' = [step EXCEPT ![c] = "sent"]
      /\ stale' = [stale EXCEPT ![c] = stale[c] \ {thing}]
      /\ outcome' = outcome /\ mayHave' = mayHave /\ stop' = stop
      /\ answer' = [answer EXCEPT ![c] = "none"]
      /\ mail' = mail \cup {new}
  BY <1>2 DEF Send, Goto, LookedAt, report
<1>4. step'[c] = "sent" /\ step[c] \in Looks /\ Op(c)' = Op(c) /\ answer'[c] = "none"
  BY <1>1, <1>3 DEF TypeOK, Op
<1>5. /\ Len(outcome[c]) \in Nat
      /\ Len(outcome[c]) + 1 \in 1..Len(plan[c].ops)
      /\ Op(c) \in Command
      /\ \A i \in 1..Len(plan[c].ops) : plan[c].ops[i] = Op(c) => i = Len(outcome[c]) + 1
      /\ IsPlan(plan[c]) /\ plan[c].source \in Row
  BY AtHand DEF Running
<1>6. new.call = c /\ new.op = Op(c) /\ new.row = Target(c) /\ new \in Message
  <2>1. Expected(c).rev \in Nat
    <3>1. plan[c].source \in DOMAIN plan[c].material
      BY <1>5, PlanOrder
    <3>2. plan[c] # NoPlan
      BY <1>5 DEF NoPlan
    <3>3. plan[c].material[plan[c].source] \in Material
      BY <1>5, <3>1, <3>2 DEF IsPlan
    <3>4. PICK mat \in Material : mat = plan[c].material[plan[c].source]
      BY <3>3
    <3>5. Expected(c) = mat \/ Expected(c) = [mat EXCEPT !.client = "company"]
      BY <3>4 DEF Expected
    <3>6. mat.rev \in Nat /\ mat = [status |-> mat.status, client |-> mat.client, rev |-> mat.rev]
      BY DEF Material
    <3>7. [mat EXCEPT !.client = "company"].rev = mat.rev
      BY <3>6
    <3> QED BY <3>5, <3>6, <3>7
  <2>2. Target(c) \in Row
    BY <1>5 DEF Target, Other, Row
  <2> QED BY <1>2, <1>5, <2>1, <2>2 DEF Message
<1>7. \A m \in mail : ~(m.call = c /\ m.op = Op(c))
  <2> SUFFICES ASSUME NEW m \in mail, m.call = c, m.op = Op(c) PROVE FALSE
    OBVIOUS
  <2>1. PICK i \in 1..Len(plan[c].ops) : plan[c].ops[i] = m.op /\ i <= Len(outcome[c])
    BY <1>1 DEF CallInv, MailInv, Looks
  <2> QED BY <1>5, <2>1
<1>8. TypeOK'
  <2>1. step' \in [Call -> Step]
    BY <1>1, <1>3 DEF TypeOK, Step
  <2>2. stale' \in [Call -> SUBSET (Row \cup {"journals"})]
    BY <1>1, <1>3 DEF TypeOK
  <2>3. answer' \in [Call -> {"none", "ok", "rejected"}]
    BY <1>1, <1>3 DEF TypeOK
  <2>4. mail' \in SUBSET Message
    BY <1>1, <1>3, <1>6 DEF TypeOK
  <2> QED BY <1>1, <1>3, <2>1, <2>2, <2>3, <2>4 DEF TypeOK
<1>9. SentOnce'
  BY <1>3, <1>6, <1>7 DEF BankInv, SentOnce
<1>10. PlanInv(c)'
  BY <1>1, <1>3, <1>4 DEF CallInv, PlanInv, Before, Running, Looks
<1>11. OutcomeInv(c)'
  BY <1>1, <1>3, <1>4 DEF CallInv, OutcomeInv, Looks
<1>12. WroteInv(c)'
  <2>1. Op(c) \notin wrote[c]
    BY <1>1, <1>5 DEF CallInv, WroteInv, Looks, Op
  <2> QED BY <1>1, <1>3, <1>4, <2>1 DEF CallInv, WroteInv, Looks
<1>13. MailInv(c)'
  <2> SUFFICES ASSUME NEW m \in mail', m.call = c PROVE MailInv(c)!(m)'
    BY DEF MailInv
  <2>1. CASE m = new
    <3>1. plan[c].ops[Len(outcome[c]) + 1] = m.op
      BY <1>6, <2>1 DEF Op
    <3>2. m.row = IF m.op = "delete" THEN Other(plan[c].source) ELSE plan[c].source
      BY <1>6, <2>1 DEF Target
    <3> QED BY <1>3, <1>4, <1>5, <1>6, <2>1, <3>1, <3>2
  <2>2. CASE m \in mail
    <3>1. m.op # Op(c)
      BY <1>7, <2>2
    <3>2. m.op = "confirm"
      BY <1>1, <2>2, <3>1 DEF CallInv, MailInv, Looks
    <3> QED BY <1>1, <1>3, <1>4, <2>2, <3>1, <3>2 DEF CallInv, MailInv, Looks
  <2> QED BY <1>3, <2>1, <2>2
<1>14. \A d \in Call \ {c} : OwnUnchanged(d) /\ BooksKept(d)
  BY <1>1, <1>3, <1>6 DEF OwnUnchanged, SameMail, BooksKept, TypeOK
<1> QED BY <1>8, <1>9, <1>10, <1>11, <1>12, <1>13, <1>14, Alone DEF LoopInv

-----------------------------------------------------------------------------
(* The steps of a call. *)

(* Up to the execute nothing is planned, reported, sent or written. *)
LEMMA NotYetRunning ==
    ASSUME BankInv, NEW c \in Call, step[c] \in {"list", "match", "reviewed"},
           NEW next \in Before, Goto(c, next),
           UNCHANGED <<rows, journals, mail, plan, report, answer, wrote, stale, foreign, faults>>,
           DOMAIN seen' = Call, DOMAIN review' = Call,
           \A d \in Call \ {c} : seen'[d] = seen[d] /\ review'[d] = review[d],
           next = "match" => seen'[c] \in [Row -> Material],
           IsPlan(review'[c]),
           next # "refused" => review'[c] = NoPlan \/ review'[c].ops # << >>,
           next = "reviewed" => review'[c] # NoPlan
    PROVE  BankInv'
<1>1. CallInv(c) /\ TypeOK
  BY DEF BankInv
<1>2. step' = [step EXCEPT ![c] = next]
  BY DEF Goto
<1>3. /\ outcome' = outcome /\ mayHave' = mayHave /\ stop' = stop
  BY DEF report
<1>4. step'[c] = next
  BY <1>1, <1>2 DEF TypeOK
<1>5. plan[c] = NoPlan /\ outcome[c] = << >> /\ wrote[c] = {}
  BY <1>1 DEF CallInv, PlanInv, Before
<1>6. TypeOK'
  <2>1. step' \in [Call -> Step]
    BY <1>1, <1>2 DEF TypeOK, Step, Before, Ended
  <2> QED BY <1>1, <1>3, <2>1 DEF TypeOK
<1>7. SentOnce'
  BY DEF BankInv, SentOnce
<1>8. PlanInv(c)'
  BY <1>1, <1>3, <1>4, <1>5 DEF CallInv, PlanInv, Before, Running, Looks
<1>9. OutcomeInv(c)'
  BY <1>1, <1>3, <1>4 DEF CallInv, OutcomeInv, Before
<1>10. WroteInv(c)'
  BY <1>1, <1>3, <1>4 DEF CallInv, WroteInv, Before
<1>11. MailInv(c)'
  <2>1. \A m \in mail : m.call # c
    BY <1>1, <1>5 DEF CallInv, MailInv, NoPlan
  <2> QED BY <2>1 DEF MailInv
<1>12. KnowInv(c)'
  BY <1>4 DEF KnowInv, ConfirmsLater, DeletesLater, RemovesLater, SentFor, Looks, Before
<1>13. \A d \in Call \ {c} : OwnUnchanged(d) /\ BooksKept(d)
  BY <1>1, <1>2, <1>3 DEF OwnUnchanged, SameMail, BooksKept, TypeOK
<1> QED BY <1>6, <1>7, <1>8, <1>9, <1>10, <1>11, <1>12, <1>13, Alone DEF LoopInv

LEMMA ListStep ==
    ASSUME BankInv, NEW c \in Call, List(c)
    PROVE  BankInv'
<1>1. TypeOK /\ PlanInv(c)
  BY DEF BankInv, CallInv
<1>2. step[c] = "list" /\ Goto(c, "match") /\ seen' = [seen EXCEPT ![c] = rows]
  BY DEF List
<1>3. UNCHANGED <<rows, journals, mail, plan, report, answer, wrote, stale, foreign, faults>>
  BY DEF List, Idle
<1>4. review' = review
  BY DEF List
<1>5. /\ DOMAIN seen' = Call /\ DOMAIN review' = Call
      /\ \A d \in Call \ {c} : seen'[d] = seen[d] /\ review'[d] = review[d]
      /\ seen'[c] \in [Row -> Material]
  BY <1>1, <1>2, <1>4 DEF TypeOK
<1>6. IsPlan(review'[c]) /\ (review'[c] = NoPlan \/ review'[c].ops # << >>)
  BY <1>1, <1>2, <1>4 DEF PlanInv
<1>7. step[c] \in {"list", "match", "reviewed"} /\ "match" \in Before
  BY <1>2 DEF Before
<1> QED BY <1>2, <1>3, <1>5, <1>6, <1>7, NotYetRunning

LEMMA ExecuteStep ==
    ASSUME BankInv, NEW c \in Call, Execute(c)
    PROVE  BankInv'
<1>1. TypeOK /\ PlanInv(c)
  BY DEF BankInv, CallInv
<1>2. step[c] = "reviewed" /\ Goto(c, "list") /\ seen' = seen /\ review' = review
  BY DEF Execute
<1>3. UNCHANGED <<rows, journals, mail, plan, report, answer, wrote, stale, foreign, faults>>
  BY DEF Execute, Idle
<1>4. /\ DOMAIN seen' = Call /\ DOMAIN review' = Call
      /\ \A d \in Call \ {c} : seen'[d] = seen[d] /\ review'[d] = review[d]
  BY <1>1, <1>2 DEF TypeOK
<1>5. IsPlan(review'[c]) /\ (review'[c] = NoPlan \/ review'[c].ops # << >>)
  BY <1>1, <1>2 DEF PlanInv
<1>6. step[c] \in {"list", "match", "reviewed"} /\ "list" \in Before
  BY <1>2 DEF Before
<1> QED BY <1>2, <1>3, <1>4, <1>5, <1>6, NotYetRunning

(* A dry run issues its plan, or finds nothing to do. *)
LEMMA DryRunStep ==
    ASSUME BankInv, NEW c \in Call, Match(c), review[c] = NoPlan
    PROVE  BankInv'
<1>1. TypeOK /\ PlanInv(c)
  BY DEF BankInv, CallInv
<1>2. step[c] = "match" /\ seen' = [seen EXCEPT ![c] = << >>]
  BY DEF Match
<1>3. PICK known : /\ review' = [review EXCEPT ![c] = Matched(seen[c], known)]
                   /\ Goto(c, IF Matched(seen[c], known).ops = << >> THEN "refused" ELSE "reviewed")
                   /\ plan' = plan
  BY DEF Match
<1>4. UNCHANGED <<rows, journals, mail, plan, report, answer, wrote, stale, foreign, faults>>
  BY <1>3 DEF Match, Idle
<1>5. /\ DOMAIN seen' = Call /\ DOMAIN review' = Call
      /\ \A d \in Call \ {c} : seen'[d] = seen[d] /\ review'[d] = review[d]
      /\ review'[c] = Matched(seen[c], known)
  BY <1>1, <1>2, <1>3 DEF TypeOK
<1>6. IsPlan(review'[c])
  <2>1. seen[c] \in [Row -> Material]
    BY <1>1, <1>2 DEF PlanInv
  <2> QED BY <1>5, <2>1, MatchedIsPlan
<1>7. step[c] \in {"list", "match", "reviewed"} /\ "refused" \in Before /\ "reviewed" \in Before
  BY <1>2 DEF Before
<1>8. CASE Matched(seen[c], known).ops = << >>
  <2>1. Goto(c, "refused")
    BY <1>3, <1>8
  <2> QED BY <1>4, <1>5, <1>6, <1>7, <2>1, NotYetRunning
<1>9. CASE Matched(seen[c], known).ops # << >>
  <2>1. Goto(c, "reviewed")
    BY <1>3, <1>9
  <2>2. review'[c].ops # << >> /\ review'[c] # NoPlan
    BY <1>5, <1>9 DEF NoPlan
  <2> QED BY <1>4, <1>5, <1>6, <1>7, <2>1, <2>2, NotYetRunning
<1> QED BY <1>8, <1>9

(* An execute goes on when it has matched what was reviewed. *)
LEMMA MatchStep ==
    ASSUME BankInv, NEW c \in Call, Match(c), review[c] # NoPlan
    PROVE  BankInv'
<1>1. TypeOK /\ CallInv(c)
  BY DEF BankInv
<1>2. /\ step[c] = "match" /\ seen' = [seen EXCEPT ![c] = << >>] /\ review' = review
      /\ IF Matched(seen[c], journals) = review[c]
           THEN plan' = [plan EXCEPT ![c] = review[c]] /\ Goto(c, "prepare")
           ELSE plan' = plan /\ Goto(c, "refused")
  BY DEF Match
<1>3. UNCHANGED <<rows, journals, mail, report, answer, wrote, stale, foreign, faults>>
  BY DEF Match, Idle
<1>4. /\ DOMAIN seen' = Call /\ DOMAIN review' = Call
      /\ \A d \in Call \ {c} : seen'[d] = seen[d] /\ review'[d] = review[d]
  BY <1>1, <1>2 DEF TypeOK
<1>5. IsPlan(review[c]) /\ review[c].ops # << >>
  BY <1>1, <1>2 DEF CallInv, PlanInv
<1>6. CASE Matched(seen[c], journals) # review[c]
  <2>1. plan' = plan /\ Goto(c, "refused")
    BY <1>2, <1>6
  <2>2. step[c] \in {"list", "match", "reviewed"} /\ "refused" \in Before
    BY <1>2 DEF Before
  <2> QED BY <1>2, <1>3, <1>4, <1>5, <2>1, <2>2, NotYetRunning
<1>7. CASE Matched(seen[c], journals) = review[c]
  <2>1. /\ plan' = [plan EXCEPT ![c] = review[c]] /\ step' = [step EXCEPT ![c] = "prepare"]
        /\ outcome' = outcome /\ mayHave' = mayHave /\ stop' = stop
    BY <1>2, <1>3, <1>7 DEF Goto, report
  <2>2. step'[c] = "prepare" /\ plan'[c] = review[c]
    BY <1>1, <2>1 DEF TypeOK
  <2>3. plan[c] = NoPlan /\ outcome[c] = << >> /\ wrote[c] = {}
    BY <1>1, <1>2 DEF CallInv, PlanInv, Before
  <2>4. Len(review[c].ops) \in 1..3
    BY <1>5, PlanOrder
  <2>5. TypeOK'
    <3>1. step' \in [Call -> Step]
      BY <1>1, <2>1 DEF TypeOK, Step, Looks
    <3> QED BY <1>1, <1>2, <1>3, <1>4, <2>1, <3>1 DEF TypeOK
  <2>6. SentOnce'
    BY <1>3 DEF BankInv, SentOnce
  <2>7. PlanInv(c)'
    BY <1>1, <1>2, <1>5, <2>1, <2>2, <2>3, <2>4 DEF CallInv, PlanInv, Before, Running, Looks
  <2>8. OutcomeInv(c)'
    <3>1. stop[c] = "none" /\ mayHave[c] = \E i \in 1..Len(outcome[c]) : outcome[c][i] # "failed"
      BY <1>1, <1>2 DEF CallInv, OutcomeInv
    <3>2. Len(outcome'[c]) = 0 /\ stop'[c] = "none"
      BY <2>1, <2>3, <3>1
    <3>3. mayHave'[c] = \E i \in 1..Len(outcome'[c]) : outcome'[c][i] # "failed"
      BY <2>1, <3>1
    <3> QED BY <2>2, <2>4, <3>2, <3>3 DEF OutcomeInv
  <2>9. WroteInv(c)'
    BY <1>3, <2>1, <2>2, <2>3 DEF WroteInv
  <2>10. MailInv(c)'
    <3>1. \A m \in mail : m.call # c
      BY <1>1, <2>3 DEF CallInv, MailInv, NoPlan
    <3> QED BY <1>3, <3>1 DEF MailInv
  <2>11. KnowInv(c)'
    <3>1. step'[c] \notin {"review", "source", "other", "row", "sent"}
      BY <2>2
    <3>2. SUFFICES ASSUME ConfirmsLater(c)' PROVE Unbooked(c)'
      BY <3>1 DEF KnowInv, DeletesLater, RemovesLater, SentFor
    <3>3. Op(c)' \in {"client", "confirm"} /\ Op(c)' = review[c].ops[1]
      BY <2>1, <2>2, <2>3, <3>1, <3>2 DEF ConfirmsLater, SentFor, Op
    <3>4. 1 \in 1..Len(review[c].ops)
      BY <2>4
    <3>5. seen[c] \in [Row -> Material]
      BY <1>1, <1>2 DEF CallInv, PlanInv
    <3>6. Booking(journals) = {}
      BY <1>7, <3>3, <3>4, <3>5, ConfirmedWhenUnbooked
    <3> QED BY <1>3, <3>6 DEF Unbooked, Booking
  <2>12. \A d \in Call \ {c} : OwnUnchanged(d) /\ BooksKept(d)
    BY <1>1, <1>2, <1>3, <1>4, <2>1 DEF OwnUnchanged, SameMail, BooksKept, TypeOK
  <2> QED BY <2>5, <2>6, <2>7, <2>8, <2>9, <2>10, <2>11, <2>12, Alone DEF LoopInv
<1> QED BY <1>6, <1>7

LEMMA LookIsTyped ==
    ASSUME TypeOK, NEW c \in Call, NEW thing, LookedAt(c, thing)
    PROVE  /\ stale' \in [Call -> SUBSET (Row \cup {"journals"})]
           /\ \A d \in Call \ {c} : stale'[d] = stale[d]
           /\ stale'[c] = stale[c] \ {thing}
  BY DEF LookedAt, TypeOK

(* Before its request a command fails and leaves nothing behind. *)
LEMMA FailsUnwritten ==
    ASSUME BankInv, NEW c \in Call, step[c] \in Looks, NEW reason \in Stop \ {"none"},
           Halt(c, "failed", reason),
           UNCHANGED <<rows, journals, mail, seen, review, plan, foreign, answer, wrote>>,
           faults' \in Nat,
           stale' \in [Call -> SUBSET (Row \cup {"journals"})],
           \A d \in Call \ {c} : stale'[d] = stale[d]
    PROVE  BankInv'
<1>1. CallInv(c) /\ TypeOK
  BY DEF BankInv
<1>2. /\ Len(outcome[c]) \in Nat
      /\ Len(outcome[c]) + 1 \in 1..Len(plan[c].ops)
      /\ \A i \in 1..Len(plan[c].ops) : plan[c].ops[i] = Op(c) => i = Len(outcome[c]) + 1
  BY AtHand DEF Running
<1>3. Op(c) \notin wrote'[c]
  BY <1>1, <1>2 DEF CallInv, WroteInv, Looks, Op
<1>4. \A m \in mail : ~(m.call = c /\ m.op = Op(c))
  <2> SUFFICES ASSUME NEW m \in mail, m.call = c, m.op = Op(c) PROVE FALSE
    OBVIOUS
  <2>1. PICK i \in 1..Len(plan[c].ops) : plan[c].ops[i] = m.op /\ i <= Len(outcome[c])
    BY <1>1 DEF CallInv, MailInv, Looks
  <2> QED BY <1>2, <2>1
<1>5. /\ answer' \in [Call -> {"none", "ok", "rejected"}] /\ wrote' \in [Call -> SUBSET Command]
      /\ \A d \in Call \ {c} : /\ answer'[d] = answer[d] /\ wrote'[d] = wrote[d]
                               /\ stale'[d] = stale[d]
      /\ \A op \in Command \ {Op(c)} : op \in wrote'[c] <=> op \in wrote[c]
  BY <1>1 DEF TypeOK
<1>6. step[c] \in Running
  BY DEF Running
<1> QED BY <1>3, <1>4, <1>5, <1>6, Halts

LEMMA DriftStep ==
    ASSUME BankInv, NEW c \in Call, step[c] \in Looks, NEW thing,
           Drift(c), Unwritten, LookedAt(c, thing),
           Idle, UNCHANGED <<seen, review, plan, wrote, faults>>
    PROVE  BankInv'
<1>1. TypeOK
  BY DEF BankInv
<1>2. faults' \in Nat
  BY <1>1 DEF TypeOK
<1>3. "plan_drift" \in Stop \ {"none"}
  BY DEF Stop
<1>4. /\ stale' \in [Call -> SUBSET (Row \cup {"journals"})]
      /\ \A d \in Call \ {c} : stale'[d] = stale[d]
  BY <1>1, LookIsTyped
<1> QED BY <1>2, <1>3, <1>4, FailsUnwritten DEF Drift, Unwritten, Idle

LEMMA ReadFailsStep ==
    ASSUME BankInv, NEW c \in Call, ReadFails(c)
    PROVE  BankInv'
<1>1. TypeOK
  BY DEF BankInv
<1>2. faults' \in Nat
  BY <1>1 DEF TypeOK, ReadFails, Fault
<1>3. "mutation_failed" \in Stop \ {"none"}
  BY DEF Stop
<1>4. /\ stale' \in [Call -> SUBSET (Row \cup {"journals"})]
      /\ \A d \in Call \ {c} : stale'[d] = stale[d]
  BY <1>1 DEF ReadFails, TypeOK
<1>5. /\ step[c] \in Looks /\ Halt(c, "failed", "mutation_failed")
      /\ UNCHANGED <<rows, journals, mail, seen, review, plan, foreign, answer, wrote>>
  BY DEF ReadFails, Idle
<1> QED BY <1>2, <1>3, <1>4, <1>5, FailsUnwritten

(* A look that holds, and what it makes known. *)
LEMMA LookStep ==
    ASSUME BankInv, NEW c \in Call, step[c] \in Looks, NEW next \in Looks \ {"prepare"},
           NEW thing, Goto(c, next), UNCHANGED report, Unwritten, LookedAt(c, thing),
           Idle, UNCHANGED <<seen, review, plan, wrote, faults>>,
           next = "source" => Op(c) = "delete",
           next = "review" => Op(c) = "confirm",
           next \in {"journals", "row"} => Op(c) = "mirror",
           KnowInv(c)'
    PROVE  BankInv'
<1>1. UNCHANGED <<rows, journals, mail, seen, review, plan, report, answer, wrote, foreign,
                  faults>>
  BY DEF Idle, Unwritten
<1> QED BY <1>1, LooksOn

LEMMA LastLookStep ==
    ASSUME BankInv, NEW c \in Call, step[c] \in Looks, NEW thing, Send(c), UNCHANGED report,
           LookedAt(c, thing), Idle, UNCHANGED <<seen, review, plan, wrote, faults>>,
           KnowInv(c)'
    PROVE  BankInv'
<1>1. UNCHANGED <<rows, journals, seen, review, plan, report, wrote, foreign, faults>>
  BY DEF Idle
<1> QED BY <1>1, Sends

(* What a look leaves as it was. *)
LEMMA LookKeeps ==
    ASSUME BankInv, NEW c \in Call, NEW thing, NEW next, Goto(c, next), LookedAt(c, thing),
           UNCHANGED report, Idle, plan' = plan
    PROVE  /\ step'[c] = next /\ plan'[c] = plan[c] /\ Op(c)' = Op(c)
           /\ stale'[c] = stale[c] \ {thing}
           /\ \A r : MovedBy(c, r) /\ thing # "journals" => MovedBy(c, r)'
           /\ Unbooked(c) /\ thing # "journals" => Unbooked(c)'
           /\ rows' = rows /\ journals' = journals
<1>1. TypeOK
  BY DEF BankInv
<1>2. step'[c] = next
  BY <1>1 DEF TypeOK, Goto
<1>3. plan'[c] = plan[c] /\ Op(c)' = Op(c)
  BY DEF Op, report
<1>4. stale'[c] = stale[c] \ {thing}
  BY <1>1, LookIsTyped
<1>5. rows' = rows /\ journals' = journals
  BY DEF Idle
<1>6. \A r : MovedBy(c, r) /\ thing # "journals" => MovedBy(c, r)'
  BY <1>4, <1>5 DEF MovedBy, Moves, Registrations
<1>7. Unbooked(c) /\ thing # "journals" => Unbooked(c)'
  BY <1>4, <1>5 DEF Unbooked, Booking
<1> QED BY <1>2, <1>3, <1>4, <1>5, <1>6, <1>7

LEMMA LookAtSourceStep ==
    ASSUME BankInv, NEW c \in Call, LookAtSource(c)
    PROVE  BankInv'
<1>1. step[c] = "prepare" /\ step[c] \in Looks /\ Op(c) \in {"client", "confirm"}
  BY DEF LookAtSource, At, Looks
<1>2. plan[c].source \in Row /\ plan[c].source # "journals" /\ CallInv(c)
  BY <1>1, AtHand DEF Running, Row
<1>3. Unbooked(c)
  BY <1>1, <1>2 DEF CallInv, KnowInv, ConfirmsLater
<1>4. PICK next \in {"other", "review", "sent"} :
          /\ next = "other" => Pair(c) /\ Look(c, plan[c].source, rows[plan[c].source] = Expected(c), next)
          /\ next = "review" => /\ ~Pair(c) /\ Op(c) = "confirm"
                                /\ Look(c, plan[c].source, rows[plan[c].source] = Expected(c), next)
          /\ next = "sent" => /\ ~Pair(c) /\ Op(c) = "client"
                              /\ LookAndSend(c, plan[c].source, rows[plan[c].source] = Expected(c))
  <2>1. CASE Pair(c)
    BY <2>1 DEF LookAtSource
  <2>2. CASE ~Pair(c) /\ Op(c) = "client"
    BY <2>2 DEF LookAtSource
  <2>3. CASE ~Pair(c) /\ Op(c) = "confirm"
    BY <2>3 DEF LookAtSource
  <2> QED BY <1>1, <2>1, <2>2, <2>3
<1>5. CASE rows[plan[c].source] # Expected(c)
  BY <1>1, <1>4, <1>5, DriftStep DEF Look, LookAndSend
<1>6. CASE rows[plan[c].source] = Expected(c)
  <2>1. /\ LookedAt(c, plan[c].source) /\ UNCHANGED report /\ Idle
        /\ UNCHANGED <<seen, review, plan, wrote, faults>>
    BY <1>4, <1>6 DEF Look, LookAndSend
  <2>2. Goto(c, next)
    BY <1>4, <1>6 DEF Look, LookAndSend, Send
  <2>3. step'[c] = next /\ Op(c)' = Op(c) /\ Unbooked(c)' /\ plan' = plan
    BY <1>2, <1>3, <2>1, <2>2, LookKeeps
  <2>4. KnowInv(c)'
    <3>1. next = "review" => OtherPending(c)'
      BY <1>4, <2>3 DEF OtherPending, Pair
    <3>2. ~SentFor(c, "confirm")' /\ ~SentFor(c, "delete")' /\ ~SentFor(c, "mirror")'
      BY <1>4, <2>3 DEF SentFor
    <3>3. ~DeletesLater(c)' /\ ~RemovesLater(c)'
      BY <1>1, <2>3 DEF DeletesLater, RemovesLater
    <3> QED BY <2>3, <3>1, <3>2, <3>3 DEF KnowInv
  <2>5. CASE next = "sent"
    <3>1. Send(c)
      BY <1>4, <1>6, <2>5 DEF LookAndSend
    <3> QED BY <1>1, <2>1, <2>4, <3>1, LastLookStep
  <2>6. CASE next # "sent"
    <3>1. Unwritten /\ next \in Looks \ {"prepare"}
      BY <1>4, <2>6 DEF Look, Looks
    <3>2. next = "review" => Op(c) = "confirm"
      BY <1>4
    <3>3. next \notin {"source", "journals", "row"}
      OBVIOUS
    <3> QED BY <1>1, <2>1, <2>2, <2>4, <3>1, <3>2, <3>3, LookStep
  <2> QED BY <2>5, <2>6
<1> QED BY <1>5, <1>6

LEMMA LookAtOtherStep ==
    ASSUME BankInv, NEW c \in Call, LookAtOther(c)
    PROVE  BankInv'
<1> DEFINE other == Other(plan[c].source)
           same  == rows[other] = plan[c].material[other]
<1>1. step[c] = "other" /\ step[c] \in Looks /\ Op(c) \in {"client", "confirm"}
  BY DEF LookAtOther, At, Looks
<1>2. /\ other \in Row /\ other # "journals" /\ IsPlan(plan[c]) /\ plan[c].ops # << >>
      /\ CallInv(c)
  BY <1>1, AtHand DEF Running, Row, Other
<1>3. Unbooked(c)
  BY <1>1, <1>2 DEF CallInv, KnowInv, ConfirmsLater
<1>4. \/ Op(c) = "client" /\ LookAndSend(c, other, same)
      \/ Op(c) = "confirm" /\ Look(c, other, same, "review")
  BY <1>1 DEF LookAtOther
<1>5. CASE ~same
  BY <1>1, <1>4, <1>5, DriftStep DEF Look, LookAndSend
<1>6. CASE same
  <2>1. PICK next : next = IF Op(c) = "client" THEN "sent" ELSE "review"
    OBVIOUS
  <2>2. /\ LookedAt(c, other) /\ UNCHANGED report /\ Idle
        /\ UNCHANGED <<seen, review, plan, wrote, faults>>
    BY <1>4, <1>6 DEF Look, LookAndSend
  <2>3. Goto(c, next)
    BY <1>4, <1>6, <2>1 DEF Look, LookAndSend, Send
  <2>4. /\ step'[c] = next /\ Op(c)' = Op(c) /\ Unbooked(c)' /\ plan'[c] = plan[c]
        /\ rows' = rows
    BY <1>2, <1>3, <2>2, <2>3, LookKeeps
  <2>5. KnowInv(c)'
    <3>1. OtherPending(c)'
      <4>1. SUFFICES ASSUME Pair(c) PROVE rows[other].status = "PROJECT"
        BY <2>4 DEF OtherPending, Pair
      <4>2. DOMAIN plan[c].material = Row
        BY <1>2, <4>1, PairHasBothRows
      <4>3. plan[c] # NoPlan
        BY <1>2 DEF NoPlan
      <4> QED BY <1>2, <1>6, <4>2, <4>3 DEF IsPlan
    <3>2. ~SentFor(c, "confirm")' /\ ~SentFor(c, "delete")' /\ ~SentFor(c, "mirror")'
      BY <1>1, <2>1, <2>4 DEF SentFor
    <3>3. ~DeletesLater(c)' /\ ~RemovesLater(c)'
      BY <1>1, <2>1, <2>4 DEF DeletesLater, RemovesLater
    <3> QED BY <2>4, <3>1, <3>2, <3>3 DEF KnowInv
  <2>6. CASE next = "sent"
    <3>1. Send(c)
      BY <1>1, <1>4, <1>6, <2>1, <2>6 DEF LookAndSend
    <3> QED BY <1>1, <2>2, <2>5, <3>1, LastLookStep
  <2>7. CASE next # "sent"
    <3>1. Op(c) = "confirm" /\ next = "review"
      BY <1>1, <2>1, <2>7
    <3>2. Unwritten /\ next \in Looks \ {"prepare"}
      BY <1>4, <3>1 DEF Look, Looks
    <3>3. next \notin {"source", "journals", "row"}
      BY <3>1
    <3> QED BY <1>1, <2>2, <2>3, <2>5, <3>1, <3>2, <3>3, LookStep
  <2> QED BY <2>6, <2>7
<1> QED BY <1>5, <1>6

(* The client a run writes does not change what its row is. *)
LEMMA ExpectedIsPending ==
    ASSUME BankInv, NEW c \in Call, step[c] \in Running
    PROVE  Expected(c).status = "PROJECT"
<1>1. IsPlan(plan[c]) /\ plan[c].ops # << >> /\ 1 \in 1..Len(plan[c].ops)
  <2>1. Len(outcome[c]) \in Nat /\ Len(outcome[c]) + 1 \in 1..Len(plan[c].ops)
    BY AtHand
  <2>2. IsPlan(plan[c]) /\ plan[c].ops # << >>
    BY AtHand
  <2>3. Len(plan[c].ops) \in 0..3
    BY <2>2, PlanOrder
  <2> QED BY <2>1, <2>2, <2>3
<1>2. plan[c] # NoPlan
  BY <1>1 DEF NoPlan
<1>3. plan[c].source \in DOMAIN plan[c].material
  BY <1>1, PlanOrder
<1>4. PICK mat \in Material : mat = plan[c].material[plan[c].source] /\ mat.status = "PROJECT"
  BY <1>1, <1>2, <1>3 DEF IsPlan
<1>5. mat = [status |-> mat.status, client |-> mat.client, rev |-> mat.rev]
  BY DEF Material
<1>6. [mat EXCEPT !.client = "company"].status = mat.status
  BY <1>5
<1> QED BY <1>4, <1>6 DEF Expected

LEMMA ReviewStep ==
    ASSUME BankInv, NEW c \in Call, Review(c)
    PROVE  BankInv'
<1>1. step[c] = "review" /\ step[c] \in Looks /\ Op(c) = "confirm"
  BY DEF Review, At, Looks
<1>2. plan[c].source \in Row /\ plan[c].source # "journals" /\ CallInv(c)
  BY <1>1, AtHand DEF Running, Row
<1>3. Unbooked(c) /\ OtherPending(c)
  BY <1>1, <1>2 DEF CallInv, KnowInv, ConfirmsLater
<1>4. LookedAt(c, plan[c].source) /\ Idle /\ UNCHANGED <<seen, review, plan, wrote, faults>>
  BY DEF Review
<1>5. CASE rows[plan[c].source] # Expected(c)
  <2>1. Halt(c, "failed", "mutation_failed") /\ Unwritten
    BY <1>5 DEF Review
  <2>2. "mutation_failed" \in Stop \ {"none"} /\ TypeOK
    BY DEF Stop, BankInv
  <2>3. /\ stale' \in [Call -> SUBSET (Row \cup {"journals"})]
        /\ \A d \in Call \ {c} : stale'[d] = stale[d]
    BY <1>4, <2>2, LookIsTyped
  <2>4. UNCHANGED <<rows, journals, mail, seen, review, plan, foreign, answer, wrote>>
    BY <1>4, <2>1 DEF Idle, Unwritten
  <2>5. faults' \in Nat
    BY <1>4, <2>2 DEF TypeOK
  <2> QED BY <1>1, <2>1, <2>2, <2>3, <2>4, <2>5, FailsUnwritten
<1>6. CASE rows[plan[c].source] = Expected(c)
  <2>1. Send(c) /\ UNCHANGED report /\ Goto(c, "sent")
    BY <1>6 DEF Review, Send
  <2>2. /\ step'[c] = "sent" /\ Op(c)' = Op(c) /\ Unbooked(c)' /\ plan'[c] = plan[c]
        /\ rows' = rows /\ stale'[c] = stale[c] \ {plan[c].source}
    BY <1>2, <1>3, <1>4, <2>1, LookKeeps
  <2>3. OtherPending(c)'
    <3>1. Other(plan[c].source) # plan[c].source
      BY <1>2 DEF Other, Row
    <3> QED BY <1>3, <2>2, <3>1 DEF OtherPending, Pair
  <2>4. SourcePending(c)'
    <3>1. rows[plan[c].source].status = "PROJECT"
      BY <1>1, <1>6, ExpectedIsPending DEF Running
    <3> QED BY <2>2, <3>1 DEF SourcePending
  <2>5. KnowInv(c)'
    <3>1. ~SentFor(c, "delete")' /\ ~SentFor(c, "mirror")'
      BY <1>1, <2>2 DEF SentFor
    <3>2. ~DeletesLater(c)' /\ ~RemovesLater(c)'
      BY <1>1, <2>2 DEF DeletesLater, RemovesLater
    <3> QED BY <2>2, <2>3, <2>4, <3>1, <3>2 DEF KnowInv
  <2> QED BY <1>1, <1>4, <2>1, <2>5, LastLookStep
<1> QED BY <1>5, <1>6

(* A look of a command that confirms nothing, and what it makes known. *)
LEMMA LookForRemoval ==
    ASSUME BankInv, NEW c \in Call, step[c] \in Looks, Op(c) \in {"delete", "mirror"},
           NEW next \in {"source", "other", "journals", "row"}, NEW thing,
           Goto(c, next), UNCHANGED report, Unwritten, LookedAt(c, thing),
           Idle, UNCHANGED <<seen, review, plan, wrote, faults>>,
           next = "source" => Op(c) = "delete",
           next \in {"journals", "row"} => Op(c) = "mirror",
           Op(c) = "delete" => MovedBy(c, plan[c].source)',
           next = "row" => MovedBy(c, Other(plan[c].source))'
    PROVE  BankInv'
<1>1. step'[c] = next /\ Op(c)' = Op(c)
  BY LookKeeps
<1>2. next \in Looks \ {"prepare"}
  BY DEF Looks
<1>3. KnowInv(c)'
  <2>1. ~SentFor(c, "confirm")' /\ ~SentFor(c, "delete")' /\ ~SentFor(c, "mirror")'
    BY <1>1 DEF SentFor
  <2>2. ~ConfirmsLater(c)'
    BY <1>1 DEF ConfirmsLater, SentFor
  <2>3. DeletesLater(c)' => Op(c) = "delete"
    BY <1>1 DEF DeletesLater
  <2>4. RemovesLater(c)' => next = "row"
    BY <1>1 DEF RemovesLater
  <2> QED BY <1>1, <2>1, <2>2, <2>3, <2>4 DEF KnowInv
<1>4. next # "review"
  OBVIOUS
<1> QED BY <1>2, <1>3, <1>4, LookStep

LEMMA LookAtJournalsStep ==
    ASSUME BankInv, NEW c \in Call, LookAtJournals(c)
    PROVE  BankInv'
<1> DEFINE found == /\ Cardinality(Registrations(plan[c].source)) = 1
                    /\ Registrations(plan[c].source) \subseteq Booking(journals)
<1>1. step[c] = "prepare" /\ step[c] \in Looks /\ Op(c) = "delete"
  BY DEF LookAtJournals, At, Looks
<1>2. Look(c, "journals", found, "source")
  BY DEF LookAtJournals
<1>3. LookedAt(c, "journals") /\ Unwritten /\ Idle /\ UNCHANGED <<seen, review, plan, wrote, faults>>
  BY <1>2 DEF Look
<1>4. CASE ~found
  <2>1. Drift(c)
    BY <1>2, <1>4 DEF Look
  <2> QED BY <1>1, <1>3, <2>1, DriftStep
<1>5. CASE found
  <2>1. Goto(c, "source") /\ UNCHANGED report
    BY <1>2, <1>5 DEF Look
  <2>2. plan'[c] = plan[c] /\ journals' = journals
    BY <1>3, <2>1, LookKeeps
  <2>3. Registrations(plan[c].source) # {}
    BY <1>5, FS_EmptySet
  <2>4. Moves(plan[c].source)
    BY <1>5, <2>3 DEF Moves, Booking
  <2>5. MovedBy(c, plan[c].source)'
    BY <2>2, <2>4 DEF MovedBy, Moves, Registrations
  <2> QED BY <1>1, <1>3, <2>1, <2>5, LookForRemoval
<1> QED BY <1>4, <1>5

LEMMA LookAtBookedStep ==
    ASSUME BankInv, NEW c \in Call, LookAtBooked(c)
    PROVE  BankInv'
<1> DEFINE booked == rows[plan[c].source] = [Expected(c) EXCEPT !.status = "CONFIRMED"]
<1>1. step[c] = "source" /\ step[c] \in Looks /\ Op(c) = "delete"
  BY DEF LookAtBooked, At, Looks
<1>2. plan[c].source \in Row /\ plan[c].source # "journals" /\ CallInv(c)
  BY <1>1, AtHand DEF Running, Row
<1>3. Look(c, plan[c].source, booked, "other")
  BY DEF LookAtBooked
<1>4. /\ LookedAt(c, plan[c].source) /\ Unwritten /\ Idle
      /\ UNCHANGED <<seen, review, plan, wrote, faults>>
  BY <1>3 DEF Look
<1>5. CASE ~booked
  <2>1. Drift(c)
    BY <1>3, <1>5 DEF Look
  <2> QED BY <1>1, <1>4, <2>1, DriftStep
<1>6. CASE booked
  <2>1. Goto(c, "other") /\ UNCHANGED report
    BY <1>3, <1>6 DEF Look
  <2>2. MovedBy(c, plan[c].source)
    BY <1>1, <1>2 DEF CallInv, KnowInv, DeletesLater
  <2>3. MovedBy(c, plan[c].source)' /\ plan' = plan
    <3>1. plan'[c] = plan[c] /\ \A r : MovedBy(c, r) => MovedBy(c, r)'
      BY <1>2, <1>4, <2>1, LookKeeps
    <3>2. PICK r : r = plan[c].source
      OBVIOUS
    <3>3. MovedBy(c, r)'
      BY <2>2, <3>1, <3>2
    <3>4. r = plan'[c].source
      BY <3>1, <3>2
    <3> QED BY <1>4, <3>3, <3>4 DEF MovedBy, Moves, Registrations
  <2> QED BY <1>1, <1>4, <2>1, <2>3, LookForRemoval
<1> QED BY <1>5, <1>6

LEMMA LookAtMirrorStep ==
    ASSUME BankInv, NEW c \in Call, LookAtMirror(c)
    PROVE  BankInv'
<1> DEFINE same == rows[Target(c)] = plan[c].material[Target(c)]
<1>1. step[c] = "other" /\ step[c] \in Looks /\ Op(c) = "delete"
  BY DEF LookAtMirror, At, Looks
<1>2. /\ plan[c].source \in Row /\ CallInv(c)
      /\ Target(c) = Other(plan[c].source) /\ Target(c) # "journals"
  BY <1>1, AtHand DEF Running, Row, Other, Target
<1>3. LookAndSend(c, Target(c), same)
  BY DEF LookAtMirror
<1>4. LookedAt(c, Target(c)) /\ Idle /\ UNCHANGED <<seen, review, plan, wrote, faults>>
  BY <1>3 DEF LookAndSend
<1>5. CASE ~same
  <2>1. Drift(c) /\ Unwritten
    BY <1>3, <1>5 DEF LookAndSend
  <2> QED BY <1>1, <1>4, <2>1, DriftStep
<1>6. CASE same
  <2>1. Send(c) /\ Goto(c, "sent") /\ UNCHANGED report
    BY <1>3, <1>6 DEF LookAndSend, Send
  <2>2. MovedBy(c, plan[c].source)
    BY <1>1, <1>2 DEF CallInv, KnowInv, DeletesLater
  <2>3. /\ step'[c] = "sent" /\ Op(c)' = Op(c) /\ plan'[c] = plan[c]
        /\ rows' = rows /\ journals' = journals /\ stale'[c] = stale[c] \ {Target(c)}
    BY <1>4, <2>1, LookKeeps
  <2>4. MovedBy(c, plan[c].source)'
    BY <1>2, <2>2, <2>3 DEF MovedBy, Moves, Registrations
  <2>5. AsReviewed(c, Other(plan[c].source))'
    BY <1>2, <1>6, <2>3 DEF AsReviewed
  <2>6. KnowInv(c)'
    <3>1. ~SentFor(c, "confirm")' /\ ~SentFor(c, "mirror")'
      BY <1>1, <2>3 DEF SentFor
    <3>2. ~ConfirmsLater(c)' /\ ~RemovesLater(c)'
      BY <1>1, <2>3, <3>1 DEF ConfirmsLater, RemovesLater, Looks
    <3> QED BY <2>3, <2>4, <2>5, <3>1, <3>2 DEF KnowInv
  <2> QED BY <1>1, <1>4, <2>1, <2>6, LastLookStep
<1> QED BY <1>5, <1>6

LEMMA LookAtCounterpartStep ==
    ASSUME BankInv, NEW c \in Call, LookAtCounterpart(c)
    PROVE  BankInv'
<1> DEFINE booked == rows[Other(plan[c].source)].status = "CONFIRMED"
<1>1. step[c] = "prepare" /\ step[c] \in Looks /\ Op(c) = "mirror"
  BY DEF LookAtCounterpart, At, Looks
<1>2. Look(c, Other(plan[c].source), booked, "journals")
  BY DEF LookAtCounterpart
<1>3. /\ LookedAt(c, Other(plan[c].source)) /\ Unwritten /\ Idle
      /\ UNCHANGED <<seen, review, plan, wrote, faults>>
  BY <1>2 DEF Look
<1>4. CASE ~booked
  <2>1. Drift(c)
    BY <1>2, <1>4 DEF Look
  <2> QED BY <1>1, <1>3, <2>1, DriftStep
<1>5. CASE booked
  <2>1. Goto(c, "journals") /\ UNCHANGED report
    BY <1>2, <1>5 DEF Look
  <2> QED BY <1>1, <1>3, <2>1, LookForRemoval
<1> QED BY <1>4, <1>5

LEMMA LookAtProofStep ==
    ASSUME BankInv, NEW c \in Call, LookAtProof(c)
    PROVE  BankInv'
<1> DEFINE found == plan[c].journal \in Registrations(Other(plan[c].source)) \cap Booking(journals)
<1>1. step[c] = "journals" /\ step[c] \in Looks /\ Op(c) = "mirror"
  BY DEF LookAtProof, At, Looks
<1>2. Look(c, "journals", found, "row")
  BY DEF LookAtProof
<1>3. LookedAt(c, "journals") /\ Unwritten /\ Idle /\ UNCHANGED <<seen, review, plan, wrote, faults>>
  BY <1>2 DEF Look
<1>4. CASE ~found
  <2>1. Drift(c)
    BY <1>2, <1>4 DEF Look
  <2> QED BY <1>1, <1>3, <2>1, DriftStep
<1>5. CASE found
  <2>1. Goto(c, "row") /\ UNCHANGED report
    BY <1>2, <1>5 DEF Look
  <2>2. plan'[c] = plan[c] /\ journals' = journals
    BY <1>3, <2>1, LookKeeps
  <2>3. Moves(Other(plan[c].source))
    BY <1>5 DEF Moves, Booking
  <2>4. MovedBy(c, Other(plan[c].source))'
    BY <2>2, <2>3 DEF MovedBy, Moves, Registrations
  <2> QED BY <1>1, <1>3, <2>1, <2>4, LookForRemoval
<1> QED BY <1>4, <1>5

LEMMA LookAtRowStep ==
    ASSUME BankInv, NEW c \in Call, LookAtRow(c)
    PROVE  BankInv'
<1> DEFINE same == rows[Target(c)] = plan[c].material[Target(c)]
<1>1. step[c] = "row" /\ step[c] \in Looks /\ Op(c) = "mirror"
  BY DEF LookAtRow, At, Looks
<1>2. /\ plan[c].source \in Row /\ CallInv(c)
      /\ Target(c) = plan[c].source /\ Target(c) # "journals"
  BY <1>1, AtHand DEF Running, Row, Target
<1>3. LookAndSend(c, Target(c), same)
  BY DEF LookAtRow
<1>4. LookedAt(c, Target(c)) /\ Idle /\ UNCHANGED <<seen, review, plan, wrote, faults>>
  BY <1>3 DEF LookAndSend
<1>5. CASE ~same
  <2>1. Drift(c) /\ Unwritten
    BY <1>3, <1>5 DEF LookAndSend
  <2> QED BY <1>1, <1>4, <2>1, DriftStep
<1>6. CASE same
  <2>1. Send(c) /\ Goto(c, "sent") /\ UNCHANGED report
    BY <1>3, <1>6 DEF LookAndSend, Send
  <2>2. MovedBy(c, Other(plan[c].source))
    BY <1>1, <1>2 DEF CallInv, KnowInv, RemovesLater
  <2>3. /\ step'[c] = "sent" /\ Op(c)' = Op(c) /\ plan'[c] = plan[c]
        /\ rows' = rows /\ journals' = journals /\ stale'[c] = stale[c] \ {Target(c)}
    BY <1>4, <2>1, LookKeeps
  <2>4. MovedBy(c, Other(plan[c].source))'
    BY <1>2, <2>2, <2>3 DEF MovedBy, Moves, Registrations
  <2>5. AsReviewed(c, plan[c].source)'
    BY <1>2, <1>6, <2>3 DEF AsReviewed
  <2>6. KnowInv(c)'
    <3>1. ~SentFor(c, "confirm")' /\ ~SentFor(c, "delete")'
      BY <1>1, <2>3 DEF SentFor
    <3>2. ~ConfirmsLater(c)' /\ ~DeletesLater(c)'
      BY <1>1, <2>3, <3>1 DEF ConfirmsLater, DeletesLater, Looks
    <3> QED BY <2>3, <2>4, <2>5, <3>1, <3>2 DEF KnowInv
  <2> QED BY <1>1, <1>4, <2>1, <2>6, LastLookStep
<1> QED BY <1>5, <1>6

(* When the answer is there, the request is not on its way any more. *)
LEMMA AnsweredOnce ==
    ASSUME BankInv, NEW c \in Call, step[c] = "sent", answer[c] # "none"
    PROVE  \A m \in mail : ~(m.call = c /\ m.op = Op(c))
  BY DEF BankInv, CallInv, MailInv

LEMMA AnsweredStep ==
    ASSUME BankInv, NEW c \in Call, Answered(c)
    PROVE  BankInv'
<1>1. CallInv(c) /\ TypeOK /\ step[c] = "sent"
  BY DEF BankInv, Answered
<1>2. /\ answer' \in [Call -> {"none", "ok", "rejected"}] /\ wrote' \in [Call -> SUBSET Command]
      /\ stale' \in [Call -> SUBSET (Row \cup {"journals"})] /\ faults' \in Nat
      /\ \A d \in Call \ {c} : /\ answer'[d] = answer[d] /\ wrote'[d] = wrote[d]
                               /\ stale'[d] = stale[d]
      /\ \A op \in Command \ {Op(c)} : op \in wrote'[c] <=> op \in wrote[c]
  BY <1>1 DEF Answered, TypeOK
<1>3. UNCHANGED <<rows, journals, mail, seen, review, plan, foreign>> /\ stale' = stale /\ wrote' = wrote
  BY DEF Answered, Idle
<1>4. CASE answer[c] = "ok" /\ Proceed(c, "completed")
  <2>1. Op(c) \in wrote'[c]
    BY <1>1, <1>3, <1>4 DEF CallInv, WroteInv
  <2>2. \A m \in mail : ~(m.call = c /\ m.op = Op(c))
    BY <1>1, <1>4, AnsweredOnce
  <2>3. Op(c) = "confirm" \/ (step[c] = "sent" /\ stale' = stale)
    BY <1>1, <1>3
  <2> QED BY <1>1, <1>2, <1>3, <1>4, <2>1, <2>2, <2>3, Proceeds
<1>5. CASE answer[c] = "rejected" /\ Halt(c, "failed", "mutation_failed")
  <2>1. Op(c) \notin wrote'[c]
    BY <1>1, <1>3, <1>5 DEF CallInv, WroteInv
  <2>2. \A m \in mail : ~(m.call = c /\ m.op = Op(c))
    BY <1>1, <1>5, AnsweredOnce
  <2>3. "mutation_failed" \in Stop \ {"none"} /\ step[c] \in Running
    BY <1>1 DEF Stop, Running
  <2> QED BY <1>2, <1>3, <1>5, <2>1, <2>2, <2>3, Halts
<1> QED BY <1>4, <1>5 DEF Answered

LEMMA UnknownStep ==
    ASSUME BankInv, NEW c \in Call, Unknown(c)
    PROVE  BankInv'
<1>1. CallInv(c) /\ TypeOK /\ step[c] = "sent"
  BY DEF BankInv, Unknown
<1>2. /\ UNCHANGED <<rows, journals, mail, seen, review, plan, foreign>>
      /\ stale' = stale /\ wrote' = wrote /\ answer' = [answer EXCEPT ![c] = "none"]
  BY DEF Unknown, Idle
<1>3. faults' \in Nat
  BY <1>1 DEF Unknown, Unanswered, Fault, TypeOK
<1>4. /\ answer' \in [Call -> {"none", "ok", "rejected"}] /\ wrote' \in [Call -> SUBSET Command]
      /\ stale' \in [Call -> SUBSET (Row \cup {"journals"})]
      /\ \A d \in Call \ {c} : /\ answer'[d] = answer[d] /\ wrote'[d] = wrote[d]
                               /\ stale'[d] = stale[d]
      /\ \A op \in Command \ {Op(c)} : op \in wrote'[c] <=> op \in wrote[c]
  BY <1>1, <1>2 DEF TypeOK
<1>5. CASE Op(c) # "confirm"
  <2>1. Halt(c, "indeterminate", "mutation_indeterminate")
    BY <1>5 DEF Unknown
  <2>2. "mutation_indeterminate" \in Stop \ {"none"} /\ step[c] \in Running
    BY <1>1 DEF Stop, Running
  <2> QED BY <1>2, <1>3, <1>4, <2>1, <2>2, Halts
<1>6. CASE Op(c) = "confirm"
  <2>1. /\ step' = [step EXCEPT ![c] = "recover"]
        /\ outcome' = outcome /\ mayHave' = mayHave /\ stop' = stop
    BY <1>6 DEF Unknown, Goto, report
  <2>2. step'[c] = "recover" /\ Op(c)' = Op(c)
    BY <1>1, <1>2, <2>1 DEF TypeOK, Op
  <2>3. TypeOK'
    <3>1. step' \in [Call -> Step]
      BY <1>1, <2>1 DEF TypeOK, Step
    <3> QED BY <1>1, <1>2, <1>3, <1>4, <2>1, <3>1 DEF TypeOK
  <2>4. SentOnce'
    BY <1>2 DEF BankInv, SentOnce
  <2>5. PlanInv(c)'
    BY <1>1, <1>2, <1>6, <2>1, <2>2 DEF CallInv, PlanInv, Before, Running, Looks
  <2>6. OutcomeInv(c)'
    BY <1>1, <1>2, <2>1, <2>2 DEF CallInv, OutcomeInv
  <2>7. WroteInv(c)'
    BY <1>1, <1>2, <2>1, <2>2 DEF CallInv, WroteInv
  <2>8. MailInv(c)'
    <3> SUFFICES ASSUME NEW m \in mail', m.call = c PROVE MailInv(c)!(m)'
      BY DEF MailInv
    <3>1. m \in mail
      BY <1>2
    <3>2. m.op = "confirm"
      BY <1>1, <1>6, <3>1 DEF CallInv, MailInv
    <3> QED BY <1>1, <1>2, <2>1, <2>2, <3>1, <3>2 DEF CallInv, MailInv
  <2>9. KnowInv(c)'
    BY <2>2 DEF KnowInv, ConfirmsLater, DeletesLater, RemovesLater, SentFor, Looks
  <2>10. \A d \in Call \ {c} : OwnUnchanged(d) /\ BooksKept(d)
    BY <1>1, <1>2, <2>1 DEF OwnUnchanged, SameMail, BooksKept, TypeOK
  <2> QED BY <2>3, <2>4, <2>5, <2>6, <2>7, <2>8, <2>9, <2>10, Alone DEF LoopInv
<1> QED BY <1>5, <1>6

(* One read settles a confirmation without an answer. *)
LEMMA RecoverStep ==
    ASSUME BankInv, NEW c \in Call, Recover(c)
    PROVE  BankInv'
<1>1. CallInv(c) /\ TypeOK /\ step[c] = "recover" /\ step[c] \in Running
  BY DEF BankInv, Recover, Running
<1>2. Op(c) = "confirm"
  BY <1>1 DEF CallInv, PlanInv
<1>3. UNCHANGED <<rows, journals, mail, seen, review, plan, foreign>> /\ answer' = answer
  BY DEF Recover, Idle
<1>4. "mutation_failed" \in Stop \ {"none"} /\ "mutation_indeterminate" \in Stop \ {"none"}
  BY DEF Stop
<1>5. \A m \in mail : m.call = c /\ m.op = Op(c) => m.op = "confirm"
  BY <1>2
<1> DEFINE status == rows[plan[c].source].status
<1>6. CASE /\ Fault /\ Halt(c, "indeterminate", "mutation_indeterminate")
           /\ UNCHANGED <<wrote, stale>>
  <2>1. /\ answer' \in [Call -> {"none", "ok", "rejected"}] /\ wrote' \in [Call -> SUBSET Command]
        /\ stale' \in [Call -> SUBSET (Row \cup {"journals"})] /\ faults' \in Nat
        /\ \A d \in Call \ {c} : /\ answer'[d] = answer[d] /\ wrote'[d] = wrote[d]
                                 /\ stale'[d] = stale[d]
        /\ \A op \in Command \ {Op(c)} : op \in wrote'[c] <=> op \in wrote[c]
    BY <1>1, <1>3, <1>6 DEF TypeOK, Fault
  <2> QED BY <1>1, <1>3, <1>4, <1>6, <2>1, Halts
<1>7. CASE /\ LookedAt(c, plan[c].source) /\ UNCHANGED faults
           /\ \/ /\ status = "CONFIRMED" /\ Proceed(c, "completed")
                 /\ wrote' = [wrote EXCEPT ![c] = @ \cup {"confirm"}]
              \/ /\ status = "PROJECT" /\ Halt(c, "failed", "mutation_failed")
                 /\ wrote' = [wrote EXCEPT ![c] = @ \ {"confirm"}]
              \/ /\ Halt(c, "indeterminate", "mutation_indeterminate")
                 /\ wrote' = wrote
  <2>1. /\ stale' \in [Call -> SUBSET (Row \cup {"journals"})]
        /\ \A d \in Call \ {c} : stale'[d] = stale[d]
    BY <1>1, <1>7, LookIsTyped
  <2>2. /\ wrote' \in [Call -> SUBSET Command]
        /\ \A d \in Call \ {c} : wrote'[d] = wrote[d]
        /\ \A op \in Command \ {"confirm"} : op \in wrote'[c] <=> op \in wrote[c]
    <3>1. PICK set \in SUBSET Command :
              /\ wrote' = [wrote EXCEPT ![c] = set]
              /\ \A op \in Command \ {"confirm"} : op \in set <=> op \in wrote[c]
      <4>1. wrote = [wrote EXCEPT ![c] = wrote[c]] /\ wrote[c] \in SUBSET Command
        BY <1>1 DEF TypeOK
      <4>2. wrote[c] \cup {"confirm"} \in SUBSET Command
        BY <4>1 DEF Command
      <4> QED BY <1>7, <4>1, <4>2
    <3> QED BY <1>1, <3>1 DEF TypeOK
  <2>3. /\ answer' \in [Call -> {"none", "ok", "rejected"}] /\ faults' \in Nat
        /\ \A d \in Call \ {c} : answer'[d] = answer[d]
    BY <1>1, <1>3, <1>7 DEF TypeOK
  <2>4. CASE Proceed(c, "completed") /\ wrote' = [wrote EXCEPT ![c] = @ \cup {"confirm"}]
    <3>1. Op(c) \in wrote'[c]
      BY <1>1, <1>2, <2>4 DEF TypeOK
    <3> QED BY <1>1, <1>2, <1>3, <1>5, <2>1, <2>2, <2>3, <2>4, <3>1, Proceeds
  <2>5. CASE Halt(c, "failed", "mutation_failed") /\ wrote' = [wrote EXCEPT ![c] = @ \ {"confirm"}]
    <3>1. Op(c) \notin wrote'[c]
      BY <1>1, <1>2, <2>5 DEF TypeOK
    <3> QED BY <1>1, <1>2, <1>3, <1>4, <1>5, <2>1, <2>2, <2>3, <2>5, <3>1, Halts
  <2>6. CASE Halt(c, "indeterminate", "mutation_indeterminate")
    BY <1>1, <1>2, <1>3, <1>4, <1>5, <2>1, <2>2, <2>3, <2>6, Halts
  <2> QED BY <1>7, <2>4, <2>5, <2>6
<1>8. CASE status = "CONFIRMED"
  BY <1>6, <1>7, <1>8 DEF Recover
<1>9. CASE status = "PROJECT"
  BY <1>6, <1>7, <1>9 DEF Recover
<1>10. CASE status # "CONFIRMED" /\ status # "PROJECT"
  BY <1>6, <1>7, <1>10 DEF Recover
<1> QED BY <1>8, <1>9, <1>10

LEMMA DieStep ==
    ASSUME BankInv, NEW c \in Call, Die(c)
    PROVE  BankInv'
<1>1. CallInv(c) /\ TypeOK /\ step[c] \notin Ended
  BY DEF BankInv, Die
<1>2. PICK end \in {"lost", "dead"} :
          /\ step' = [step EXCEPT ![c] = end]
          /\ step[c] \in {"sent", "recover"} => end = "lost"
  BY DEF Die, Goto
<1>3. /\ UNCHANGED <<rows, journals, mail, seen, review, plan, foreign>>
      /\ stale' = stale /\ wrote' = wrote /\ answer' = answer
      /\ outcome' = outcome /\ mayHave' = mayHave /\ stop' = stop
  BY DEF Die, Idle, report
<1>4. faults' \in Nat
  BY <1>1 DEF Die, Fault, TypeOK
<1>5. step'[c] = end /\ Op(c)' = Op(c)
  BY <1>1, <1>2, <1>3 DEF TypeOK, Op
<1>6. TypeOK'
  <2>1. step' \in [Call -> Step]
    BY <1>1, <1>2 DEF TypeOK, Step, Ended
  <2> QED BY <1>1, <1>3, <1>4, <2>1 DEF TypeOK
<1>7. SentOnce'
  BY <1>3 DEF BankInv, SentOnce
<1>8. PlanInv(c)'
  BY <1>1, <1>3, <1>5 DEF CallInv, PlanInv, Before, Running, Looks
<1>9. OutcomeInv(c)'
  BY <1>1, <1>3, <1>5 DEF CallInv, OutcomeInv, Ended
<1>10. WroteInv(c)'
  BY <1>1, <1>2, <1>3, <1>5 DEF CallInv, WroteInv, Ended
<1>11. MailInv(c)'
  <2> SUFFICES ASSUME NEW m \in mail', m.call = c PROVE MailInv(c)!(m)'
    BY DEF MailInv
  <2>1. m \in mail
    BY <1>3
  <2>2. m.op = "confirm" \/ end = "lost"
    BY <1>1, <1>2, <2>1 DEF CallInv, MailInv, Ended
  <2> QED BY <1>1, <1>2, <1>3, <1>5, <2>1, <2>2 DEF CallInv, MailInv, Ended
<1>12. KnowInv(c)'
  BY <1>5 DEF KnowInv, ConfirmsLater, DeletesLater, RemovesLater, SentFor, Looks
<1>13. \A d \in Call \ {c} : OwnUnchanged(d) /\ BooksKept(d)
  BY <1>1, <1>2, <1>3 DEF OwnUnchanged, SameMail, BooksKept, TypeOK
<1> QED BY <1>6, <1>7, <1>8, <1>9, <1>10, <1>11, <1>12, <1>13, Alone DEF LoopInv

-----------------------------------------------------------------------------
(* The service and the accountant. *)

(* Only the request of the command at hand is waited for, and it comes once. *)
LEMMA OnlyRequest ==
    ASSUME BankInv, NEW c \in Call, NEW m \in mail, m.call = c, mail' = mail \ {m}
    PROVE  /\ SentOnce'
           /\ \A n \in mail' : n.call = c => n \in mail /\ n.op # m.op
           /\ plan'[c] = plan[c] /\ outcome'[c] = outcome[c] => (OnItsWay(c)' => OnItsWay(c))
           /\ plan'[c] = plan[c] /\ outcome'[c] = outcome[c] /\ m.op = Op(c) => ~OnItsWay(c)'
           /\ Waiting(m) => answer[c] = "none" /\ Op(c) \notin wrote[c]
           /\ \A d \in Call \ {c} : SameMail(d)
<1>1. CallInv(c)
  BY DEF BankInv
<1>2. SentOnce'
  BY DEF BankInv, SentOnce
<1>3. \A n \in mail' : n.call = c => n \in mail /\ n.op # m.op
  BY DEF BankInv, SentOnce
<1>4. plan'[c] = plan[c] /\ outcome'[c] = outcome[c] => Op(c)' = Op(c)
  BY DEF Op
<1>5. plan'[c] = plan[c] /\ outcome'[c] = outcome[c] => (OnItsWay(c)' => OnItsWay(c))
  BY <1>4 DEF OnItsWay
<1>6. plan'[c] = plan[c] /\ outcome'[c] = outcome[c] /\ m.op = Op(c) => ~OnItsWay(c)'
  BY <1>3, <1>4 DEF OnItsWay
<1>7. Waiting(m) => answer[c] = "none" /\ Op(c) \notin wrote[c]
  <2>1. SUFFICES ASSUME step[c] = "sent", m.op = Op(c)
                 PROVE  answer[c] = "none" /\ Op(c) \notin wrote[c]
    BY DEF Waiting
  <2>2. answer[c] = "none"
    BY <1>1, <2>1 DEF CallInv, MailInv
  <2> QED BY <1>1, <2>1, <2>2 DEF CallInv, WroteInv
<1>8. \A d \in Call \ {c} : SameMail(d)
  BY DEF SameMail
<1> QED BY <1>2, <1>3, <1>5, <1>6, <1>7, <1>8

(* A request that is refused or lost changes at most the answer. *)
LEMMA UndeliveredStep ==
    ASSUME BankInv, NEW c \in Call, NEW m \in mail, m.call = c, mail' = mail \ {m},
           UNCHANGED <<step, seen, review, plan, report, foreign>>,
           Refuse(m) \/ Lose(m)
    PROVE  BankInv'
<1>1. CallInv(c) /\ TypeOK
  BY DEF BankInv
<1>2. /\ UNCHANGED <<rows, journals, wrote, stale>> /\ faults' \in Nat
      /\ \/ answer' = answer
         \/ Waiting(m) /\ answer' = [answer EXCEPT ![c] = "rejected"]
  BY <1>1 DEF Refuse, Lose, Reply, Fault, TypeOK
<1>3. outcome' = outcome /\ mayHave' = mayHave /\ stop' = stop
  BY DEF report
<1>4. plan'[c] = plan[c] /\ outcome'[c] = outcome[c] /\ Op(c)' = Op(c) /\ step'[c] = step[c]
  BY <1>3 DEF Op
<1>5. TypeOK'
  <2>1. answer' \in [Call -> {"none", "ok", "rejected"}]
    BY <1>1, <1>2 DEF TypeOK
  <2>2. mail' \in SUBSET Message
    BY <1>1 DEF TypeOK
  <2> QED BY <1>1, <1>2, <1>3, <2>1, <2>2 DEF TypeOK
<1>6. SentOnce'
  BY OnlyRequest
<1>7. PlanInv(c)'
  <2>1. PlanInv(c) /\ seen'[c] = seen[c] /\ review'[c] = review[c] /\ wrote'[c] = wrote[c]
    BY <1>1, <1>2 DEF CallInv
  <2> QED BY <1>3, <1>4, <2>1, Zenon DEF PlanInv
<1>8. OutcomeInv(c)'
  BY <1>1, <1>3, <1>4 DEF CallInv, OutcomeInv
<1>9. WroteInv(c)'
  <2>1. step[c] = "sent" => (Op(c) \in wrote[c] <=> answer'[c] = "ok")
    <3>1. CASE answer' = answer
      BY <1>1, <3>1 DEF CallInv, WroteInv
    <3>2. CASE Waiting(m) /\ answer' = [answer EXCEPT ![c] = "rejected"]
      <4>1. Op(c) \notin wrote[c]
        BY <3>2, OnlyRequest
      <4>2. answer'[c] = "rejected"
        BY <1>1, <3>2 DEF TypeOK
      <4> QED BY <4>1, <4>2
    <3> QED BY <1>2, <3>1, <3>2
  <2> QED BY <1>1, <1>2, <1>3, <1>4, <2>1 DEF CallInv, WroteInv
<1>10. MailInv(c)'
  <2> SUFFICES ASSUME NEW n \in mail', n.call = c PROVE MailInv(c)!(n)'
    BY DEF MailInv
  <2>1. n \in mail /\ n.op # m.op
    BY OnlyRequest
  <2>2. step[c] = "sent" /\ n.op = Op(c) => answer' = answer
    BY <1>2, <2>1 DEF Waiting
  <2> QED BY <1>1, <1>3, <1>4, <2>1, <2>2 DEF CallInv, MailInv
<1>11. KnowInv(c)'
  <2>1. OnItsWay(c)' => OnItsWay(c)
    BY <1>4, OnlyRequest
  <2>2. BooksKept(c)
    BY <1>2 DEF BooksKept
  <2> QED BY <1>1, <1>4, <2>1, <2>2, KnowKept DEF CallInv
<1>12. \A d \in Call \ {c} : OwnUnchanged(d) /\ BooksKept(d)
  <2> SUFFICES ASSUME NEW d \in Call \ {c} PROVE OwnUnchanged(d) /\ BooksKept(d)
    OBVIOUS
  <2>1. SameMail(d)
    BY OnlyRequest
  <2>2. answer'[d] = answer[d]
    BY <1>1, <1>2 DEF TypeOK
  <2> QED BY <1>2, <1>3, <2>1, <2>2 DEF OwnUnchanged, BooksKept
<1> QED BY <1>5, <1>6, <1>7, <1>8, <1>9, <1>10, <1>11, <1>12, Alone DEF LoopInv

(* What the service does with a request. *)
LEMMA Applied ==
    ASSUME TypeOK, NEW c \in Call, NEW m \in mail, m.call = c, Apply(m)
    PROVE  /\ rows' \in [Row -> Material]
           /\ journals' \in Seq(Journal)
           /\ \A r \in Row : r # m.row => rows'[r] = rows[r]
           /\ m.op # "confirm" => journals' = journals
           /\ \A i \in DOMAIN journals : i \in DOMAIN journals' /\ journals'[i] = journals[i]
           /\ stale' \in [Call -> SUBSET (Row \cup {"journals"})]
           /\ stale'[c] = stale[c]
           /\ \A d \in Call \ {c} : BooksKept(d)
<1>1. m \in Message
  BY DEF TypeOK
<1>2. m.row \in Row /\ m.call \in Call
  BY <1>1 DEF Message
<1>3. rows[m.row] \in Material
  BY <1>2 DEF TypeOK
<1>4. rows[m.row] = [status |-> rows[m.row].status, client |-> rows[m.row].client,
                     rev |-> rows[m.row].rev]
      /\ rows[m.row].rev \in Nat
      /\ rows[m.row].status \in {"PROJECT", "CONFIRMED", "deleted"}
      /\ rows[m.row].client \in {"none", "company"}
  BY <1>3 DEF Material
<1>5. PICK new \in Material : rows' = [rows EXCEPT ![m.row] = new]
  <2>1. [rows[m.row] EXCEPT !.client = "company"] \in Material
    BY <1>4 DEF Material
  <2>2. [rows[m.row] EXCEPT !.status = "CONFIRMED"] \in Material
    BY <1>4 DEF Material
  <2>3. [rows[m.row] EXCEPT !.status = "deleted"] \in Material
    BY <1>4 DEF Material
  <2>4. CASE m.op = "client"
    <3>1. rows' = [rows EXCEPT ![m.row] = [rows[m.row] EXCEPT !.client = "company"]]
      BY <2>4 DEF Apply
    <3> QED BY <2>1, <3>1
  <2>5. CASE m.op = "confirm"
    <3>1. rows' = [rows EXCEPT ![m.row] = [rows[m.row] EXCEPT !.status = "CONFIRMED"]]
      BY <2>5 DEF Apply
    <3> QED BY <2>2, <3>1
  <2>6. CASE m.op # "client" /\ m.op # "confirm"
    <3>1. rows' = [rows EXCEPT ![m.row] = [rows[m.row] EXCEPT !.status = "deleted"]]
      BY <2>6 DEF Apply
    <3> QED BY <2>3, <3>1
  <2> QED BY <2>4, <2>5, <2>6
<1>6. rows' \in [Row -> Material] /\ \A r \in Row : r # m.row => rows'[r] = rows[r]
  BY <1>2, <1>5 DEF TypeOK
<1>7. PICK entry \in Journal : IF m.op = "confirm" THEN journals' = Append(journals, entry)
                                                   ELSE journals' = journals
  <2>1. [of |-> m.row, live |-> TRUE, good |-> rows[m.row].rev = m.rev] \in Journal
    BY <1>2 DEF Journal
  <2> QED BY <2>1 DEF Apply
<1>8. /\ journals' \in Seq(Journal)
      /\ \A i \in DOMAIN journals : i \in DOMAIN journals' /\ journals'[i] = journals[i]
  <2>1. journals \in Seq(Journal)
    BY DEF TypeOK
  <2>2. CASE m.op = "confirm"
    <3>1. /\ Append(journals, entry) \in Seq(Journal)
          /\ Len(Append(journals, entry)) = Len(journals) + 1
          /\ \A i \in 1..Len(journals) : Append(journals, entry)[i] = journals[i]
      BY <2>1, AppendProperties
    <3> QED BY <1>7, <2>1, <2>2, <3>1
  <2>3. CASE m.op # "confirm"
    BY <1>7, <2>1, <2>3
  <2> QED BY <2>2, <2>3
<1>9. PICK things \in SUBSET (Row \cup {"journals"}) :
          /\ m.row \in things
          /\ m.op = "confirm" => "journals" \in things
          /\ Outdate(Call \ {c}, things)
  BY <1>2 DEF Apply
<1>10. stale' = [d \in Call |-> IF d \in Call \ {c} /\ step[d] \in Looks \cup {"sent", "recover"}
                                THEN stale[d] \cup things ELSE stale[d]]
  BY <1>9 DEF Outdate
<1>11. stale' \in [Call -> SUBSET (Row \cup {"journals"})] /\ stale'[c] = stale[c]
  BY <1>9, <1>10 DEF TypeOK
<1>12. ASSUME NEW d \in Call \ {c} PROVE BooksKept(d)
  <2>1. SUFFICES ASSUME step[d] \in Running
                 PROVE  /\ \A r \in Row : rows'[r] = rows[r] \/ r \in stale'[d]
                        /\ journals' = journals \/ "journals" \in stale'[d]
                        /\ stale[d] \subseteq stale'[d]
    BY DEF BooksKept
  <2>2. stale'[d] = stale[d] \cup things
    BY <1>10, <2>1 DEF Running
  <2> QED BY <1>6, <1>7, <1>9, <2>2
<1> QED BY <1>6, <1>7, <1>8, <1>11, <1>12

(* A registration that arrives when its call has gone on finds it at the deletion. *)
LEMMA LateRegistration ==
    ASSUME BankInv, NEW c \in Call, NEW m \in mail, m.call = c, m.op = "confirm",
           step[c] \in Looks \/ (step[c] = "sent" /\ Op(c) # "confirm")
    PROVE  Op(c) = "delete" /\ m.row = plan[c].source /\ step[c] \notin {"review", "row"}
<1>1. CallInv(c) /\ step[c] \in Running
  BY DEF BankInv, Running
<1>2. /\ Len(outcome[c]) \in Nat /\ Len(outcome[c]) + 1 \in 1..Len(plan[c].ops)
      /\ IsPlan(plan[c]) /\ Op(c) = plan[c].ops[Len(outcome[c]) + 1]
  BY <1>1, AtHand DEF Op
<1>3. Len(plan[c].ops) \in 0..3
  BY <1>2, PlanOrder
<1>4. PICK i \in 1..Len(plan[c].ops) :
          /\ plan[c].ops[i] = "confirm"
          /\ i <= Len(outcome[c])
                \/ (i = Len(outcome[c]) + 1 /\ step[c] \in {"sent", "recover", "lost"})
  BY <1>1 DEF CallInv, MailInv
<1>5. i <= Len(outcome[c])
  BY <1>2, <1>4 DEF Looks
<1>6. i + 1 \in 1..Len(plan[c].ops)
  BY <1>2, <1>3, <1>5
<1>7. plan[c].ops[i + 1] = "delete"
  BY <1>2, <1>4, <1>6, PlanOrder
<1>8. i + 1 = Len(plan[c].ops)
  BY <1>2, <1>6, <1>7, PlanOrder
<1>9. Op(c) = "delete"
  BY <1>2, <1>3, <1>5, <1>7, <1>8
<1>10. m.row = plan[c].source
  BY <1>1 DEF CallInv, MailInv
<1> QED BY <1>1, <1>9, <1>10 DEF CallInv, PlanInv

(* The registrations there are stay when one is added. *)
LEMMA MovesOn ==
    ASSUME NEW c \in Call, NEW r, MovedBy(c, r), stale'[c] = stale[c],
           \A i \in DOMAIN journals : i \in DOMAIN journals' /\ journals'[i] = journals[i]
    PROVE  Moves(r)' \/ "journals" \in stale'[c]
<1>1. CASE Moves(r)
  <2>1. PICK i \in DOMAIN journals : journals[i].live /\ journals[i].of = r /\ journals[i].good
    BY <1>1 DEF Moves, Registrations
  <2> QED BY <2>1 DEF Moves, Registrations
<1> QED BY <1>1 DEF MovedBy

LEMMA DeliverKnow ==
    ASSUME BankInv, NEW c \in Call, NEW m \in mail, m.call = c, mail' = mail \ {m}, Apply(m),
           step'[c] = step[c], plan' = plan, outcome'[c] = outcome[c]
    PROVE  KnowInv(c)'
<1>1. CallInv(c) /\ TypeOK
  BY DEF BankInv
<1>2. /\ \A r \in Row : r # m.row => rows'[r] = rows[r]
      /\ m.op # "confirm" => journals' = journals
      /\ \A i \in DOMAIN journals : i \in DOMAIN journals' /\ journals'[i] = journals[i]
      /\ stale'[c] = stale[c]
  BY <1>1, Applied
<1>3. Op(c)' = Op(c) /\ plan'[c] = plan[c]
  BY DEF Op
<1>4. CASE step[c] \notin Looks \cup {"sent"}
  BY <1>4 DEF KnowInv, ConfirmsLater, DeletesLater, RemovesLater, SentFor, Looks
<1>5. CASE step[c] = "sent" /\ m.op = Op(c)
  <2>1. ~OnItsWay(c)'
    BY <1>5, OnlyRequest
  <2>2. \A op : ~SentFor(c, op)'
    BY <2>1 DEF SentFor
  <2>3. ConfirmsLater(c)' => Unbooked(c)'
    <3>1. SUFFICES ASSUME ConfirmsLater(c)' PROVE Unbooked(c)'
      OBVIOUS
    <3>2. Op(c) = "client"
      BY <1>3, <1>5, <2>2, <3>1 DEF ConfirmsLater, Looks
    <3>3. Unbooked(c) /\ journals' = journals
      BY <1>1, <1>2, <1>5, <3>2 DEF CallInv, KnowInv, ConfirmsLater
    <3> QED BY <1>2, <3>3 DEF Unbooked, Booking
  <2>4. DeletesLater(c)' => MovedBy(c, plan[c].source)'
    <3>1. DeletesLater(c)' => DeletesLater(c)
      BY <1>3 DEF DeletesLater
    <3>2. SUFFICES ASSUME MovedBy(c, plan[c].source) PROVE MovedBy(c, plan[c].source)'
      BY <1>1, <3>1 DEF CallInv, KnowInv
    <3>3. PICK r : r = plan[c].source
      OBVIOUS
    <3>4. Moves(r)' \/ "journals" \in stale'[c]
      BY <1>2, <3>2, <3>3, MovesOn
    <3> QED BY <3>3, <3>4 DEF MovedBy, Moves, Registrations
  <2>5. RemovesLater(c)' => MovedBy(c, Other(plan[c].source))'
    <3>1. RemovesLater(c)' => RemovesLater(c)
      BY <1>3 DEF RemovesLater
    <3>2. SUFFICES ASSUME MovedBy(c, Other(plan[c].source))
                   PROVE  MovedBy(c, Other(plan[c].source))'
      BY <1>1, <3>1 DEF CallInv, KnowInv
    <3>3. PICK r : r = Other(plan[c].source)
      OBVIOUS
    <3>4. Moves(r)' \/ "journals" \in stale'[c]
      BY <1>2, <3>2, <3>3, MovesOn
    <3> QED BY <3>3, <3>4 DEF MovedBy, Moves, Registrations
  <2>6. step'[c] # "review"
    BY <1>5
  <2> QED BY <2>2, <2>3, <2>4, <2>5, <2>6 DEF KnowInv
<1>6. CASE step[c] \in Looks \/ (step[c] = "sent" /\ m.op # Op(c))
  <2>1. m.op = "confirm"
    BY <1>1, <1>6 DEF CallInv, MailInv, Looks
  <2>2. Op(c) = "delete" /\ m.row = plan[c].source /\ step[c] \notin {"review", "row"}
    BY <1>6, <2>1, LateRegistration
  <2>3. ~SentFor(c, "confirm")' /\ ~SentFor(c, "mirror")' /\ ~ConfirmsLater(c)' /\ ~RemovesLater(c)'
    BY <1>3, <2>2 DEF SentFor, ConfirmsLater, RemovesLater
  <2>4. DeletesLater(c)' => MovedBy(c, plan[c].source)'
    <3>1. DeletesLater(c)' => DeletesLater(c)
      BY <1>3 DEF DeletesLater
    <3>2. SUFFICES ASSUME MovedBy(c, plan[c].source) PROVE MovedBy(c, plan[c].source)'
      BY <1>1, <3>1 DEF CallInv, KnowInv
    <3>3. PICK r : r = plan[c].source
      OBVIOUS
    <3>4. Moves(r)' \/ "journals" \in stale'[c]
      BY <1>2, <3>2, <3>3, MovesOn
    <3> QED BY <3>3, <3>4 DEF MovedBy, Moves, Registrations
  <2>5. SentFor(c, "delete")' => AsReviewed(c, Other(plan[c].source))'
    <3>1. SUFFICES ASSUME SentFor(c, "delete")' PROVE AsReviewed(c, Other(plan[c].source))'
      OBVIOUS
    <3>2. OnItsWay(c)' => OnItsWay(c)
      BY <1>3, OnlyRequest
    <3>3. SentFor(c, "delete")
      BY <1>3, <3>1, <3>2 DEF SentFor
    <3>4. AsReviewed(c, Other(plan[c].source))
      BY <1>1, <3>3 DEF CallInv, KnowInv
    <3>5. Other(plan[c].source) \in Row /\ Other(plan[c].source) # m.row
      BY <2>2 DEF Other, Row
    <3> QED BY <1>2, <1>3, <3>4, <3>5 DEF AsReviewed
  <2> QED BY <2>2, <2>3, <2>4, <2>5 DEF KnowInv
<1> QED BY <1>4, <1>5, <1>6

LEMMA DeliverStep ==
    ASSUME BankInv, NEW c \in Call, NEW m \in mail, m.call = c, mail' = mail \ {m},
           UNCHANGED <<step, seen, review, plan, report, foreign>>,
           Deliver(m)
    PROVE  BankInv'
<1>1. CallInv(c) /\ TypeOK /\ Apply(m) /\ faults' = faults /\ m \in Message
  BY DEF BankInv, Deliver, TypeOK
<1>2. outcome' = outcome /\ mayHave' = mayHave /\ stop' = stop
  BY DEF report
<1>3. plan'[c] = plan[c] /\ outcome'[c] = outcome[c] /\ Op(c)' = Op(c) /\ step'[c] = step[c]
  BY <1>2 DEF Op
<1> DEFINE counts == m.op # "confirm" \/ Awaited(m) \/ step[c] = "lost"
<1>4. /\ wrote' = IF counts THEN [wrote EXCEPT ![c] = wrote[c] \cup {m.op}] ELSE wrote
      /\ answer' = IF Waiting(m) THEN [answer EXCEPT ![c] = "ok"] ELSE answer
  BY DEF Deliver, Reply
<1>5. /\ wrote'[c] = IF counts THEN wrote[c] \cup {m.op} ELSE wrote[c]
      /\ answer'[c] = IF Waiting(m) THEN "ok" ELSE answer[c]
      /\ \A d \in Call \ {c} : wrote'[d] = wrote[d] /\ answer'[d] = answer[d]
  BY <1>1, <1>4 DEF TypeOK
<1>6. TypeOK'
  <2>1. answer' \in [Call -> {"none", "ok", "rejected"}]
    BY <1>1, <1>4 DEF TypeOK
  <2>2. mail' \in SUBSET Message
    BY <1>1 DEF TypeOK
  <2>3. wrote' \in [Call -> SUBSET Command]
    BY <1>1, <1>4 DEF TypeOK, Message
  <2>4. /\ rows' \in [Row -> Material] /\ journals' \in Seq(Journal)
        /\ stale' \in [Call -> SUBSET (Row \cup {"journals"})]
    BY <1>1, Applied
  <2> QED BY <1>1, <1>2, <2>1, <2>2, <2>3, <2>4 DEF TypeOK
<1>7. SentOnce'
  BY OnlyRequest
<1>8. PICK at \in 1..Len(plan[c].ops) :
          /\ plan[c].ops[at] = m.op
          /\ at <= Len(outcome[c])
                \/ (at = Len(outcome[c]) + 1 /\ step[c] \in {"sent", "recover", "lost"})
  BY <1>1 DEF CallInv, MailInv
<1>9. \A i \in 1..Len(plan[c].ops) : plan[c].ops[i] = m.op => i = at
  BY <1>1, <1>8, PlanOrder DEF CallInv, PlanInv
<1>10. Len(outcome[c]) \in Nat /\ Len(plan[c].ops) \in Nat
  BY <1>1, PlanOrder DEF TypeOK, CallInv, PlanInv
<1>11. PlanInv(c)'
  <2>1. PlanInv(c) /\ seen'[c] = seen[c] /\ review'[c] = review[c]
    BY <1>1 DEF CallInv
  <2>2. step[c] \notin Before
    <3>1. plan[c].ops # << >>
      BY <1>8
    <3> QED BY <2>1, <3>1 DEF PlanInv, NoPlan
  <2> QED BY <1>2, <1>3, <2>1, <2>2, Zenon DEF PlanInv
<1>12. OutcomeInv(c)'
  BY <1>1, <1>2, <1>3 DEF CallInv, OutcomeInv
<1>13. WroteInv(c)'
  <2>1. WroteInv(c) /\ MailInv(c) /\ OutcomeInv(c)
    BY <1>1 DEF CallInv
  <2>2. \A i \in 1..Len(outcome[c]) : outcome[c][i] = "completed" => plan[c].ops[i] \in wrote'[c]
    BY <1>5, <2>1 DEF WroteInv
  <2>3. ASSUME NEW i \in 1..Len(plan[c].ops), plan[c].ops[i] \in wrote'[c]
        PROVE  \/ i \in 1..Len(outcome[c]) /\ outcome[c][i] # "failed"
               \/ i = Len(outcome[c]) + 1 /\ step[c] \in {"sent", "recover", "lost"}
    <3>1. CASE plan[c].ops[i] \in wrote[c]
      BY <2>1, <3>1 DEF WroteInv
    <3>2. CASE plan[c].ops[i] \notin wrote[c]
      <4>1. counts /\ i = at
        BY <1>5, <1>9, <2>3, <3>2
      <4>2. CASE at = Len(outcome[c]) + 1 /\ step[c] \in {"sent", "recover", "lost"}
        BY <4>1, <4>2
      <4>3. CASE at <= Len(outcome[c])
        <5>1. at \in 1..Len(outcome[c])
          BY <1>8, <1>10, <4>3
        <5>2. CASE step[c] # "over"
          BY <2>1, <4>1, <5>1, <5>2 DEF OutcomeInv
        <5>3. CASE step[c] = "over"
          <6>1. m.op # "confirm"
            BY <4>1, <5>3 DEF Awaited, Waiting
          <6>2. /\ outcome[c][Len(outcome[c])] = "indeterminate"
                /\ plan[c].ops[Len(outcome[c])] = m.op /\ outcome[c] # << >>
            BY <2>1, <5>3, <6>1 DEF MailInv
          <6>3. Len(outcome[c]) \in 1..Len(plan[c].ops)
            BY <1>8, <1>10, <2>1, <5>1 DEF OutcomeInv
          <6>4. at = Len(outcome[c])
            BY <1>9, <6>2, <6>3
          <6> QED BY <4>1, <5>1, <6>2, <6>4
        <5> QED BY <5>2, <5>3
      <4> QED BY <1>8, <4>2, <4>3
    <3> QED BY <3>1, <3>2
  <2>4. step[c] = "sent" => (Op(c) \in wrote'[c] <=> answer'[c] = "ok")
    <3>1. CASE Waiting(m)
      BY <1>5, <3>1 DEF Waiting, Awaited
    <3>2. CASE ~Waiting(m)
      BY <1>5, <2>1, <3>2 DEF WroteInv, Waiting
    <3> QED BY <3>1, <3>2
  <2> QED BY <1>2, <1>3, <2>2, <2>3, <2>4 DEF WroteInv
<1>14. MailInv(c)'
  <2> SUFFICES ASSUME NEW n \in mail', n.call = c PROVE MailInv(c)!(n)'
    BY DEF MailInv
  <2>1. n \in mail /\ n.op # m.op
    BY OnlyRequest
  <2>2. step[c] = "sent" /\ n.op = Op(c) => answer'[c] = answer[c]
    BY <1>5, <2>1 DEF Waiting
  <2> QED BY <1>1, <1>2, <1>3, <2>1, <2>2 DEF CallInv, MailInv
<1>15. KnowInv(c)'
  BY <1>1, <1>3, DeliverKnow
<1>16. \A d \in Call \ {c} : OwnUnchanged(d) /\ BooksKept(d)
  <2> SUFFICES ASSUME NEW d \in Call \ {c} PROVE OwnUnchanged(d) /\ BooksKept(d)
    OBVIOUS
  <2>1. SameMail(d)
    BY OnlyRequest
  <2>2. BooksKept(d)
    BY <1>1, Applied
  <2> QED BY <1>2, <1>5, <2>1, <2>2 DEF OwnUnchanged
<1> QED BY <1>6, <1>7, <1>11, <1>12, <1>13, <1>14, <1>15, <1>16, Alone DEF LoopInv

LEMMA ServiceStepKeeps ==
    ASSUME BankInv, NEW c \in Call, ServiceStep(c)
    PROVE  BankInv'
<1>1. PICK m \in mail : /\ m.call = c /\ mail' = mail \ {m}
                        /\ Deliver(m) \/ Refuse(m) \/ Lose(m)
                        /\ UNCHANGED <<step, seen, review, plan, report, foreign>>
  BY DEF ServiceStep
<1>2. CASE Deliver(m)
  BY <1>1, <1>2, DeliverStep
<1>3. CASE Refuse(m) \/ Lose(m)
  BY <1>1, <1>3, UndeliveredStep
<1> QED BY <1>1, <1>2, <1>3

(* Others changed some of the rows and perhaps the journals. *)
Changed(things) ==
    /\ Outdate(Call, things)
    /\ rows' \in [Row -> Material]
    /\ journals' \in Seq(Journal)
    /\ \A r \in Row : rows'[r] = rows[r] \/ r \in things
    /\ journals' = journals \/ "journals" \in things

(* The accountant may do anything to the rows and the journals that is stale then. *)
LEMMA ForeignStepKeeps ==
    ASSUME BankInv, ForeignStep
    PROVE  BankInv'
<1>1. TypeOK
  BY DEF BankInv
<1>2. /\ UNCHANGED <<mail, step, seen, review, plan, report, answer, wrote, faults>>
      /\ foreign' = foreign + 1
  BY DEF ForeignStep
<1>3. PICK things \in SUBSET (Row \cup {"journals"}) : Changed(things)
  <2>0. \A r \in Row : /\ rows[r] \in Material
                       /\ rows[r] = [status |-> rows[r].status, client |-> rows[r].client,
                                     rev |-> rows[r].rev]
                       /\ rows[r].rev \in Nat /\ rows[r].client \in {"none", "company"}
                       /\ rows[r].status \in {"PROJECT", "CONFIRMED", "deleted"}
    <3> SUFFICES ASSUME NEW r \in Row
                 PROVE  /\ rows[r] \in Material
                        /\ rows[r] = [status |-> rows[r].status, client |-> rows[r].client,
                                      rev |-> rows[r].rev]
                        /\ rows[r].rev \in Nat /\ rows[r].client \in {"none", "company"}
                        /\ rows[r].status \in {"PROJECT", "CONFIRMED", "deleted"}
      OBVIOUS
    <3>1. rows[r] \in Material
      BY <1>1 DEF TypeOK
    <3> QED BY <3>1 DEF Material
  <2>1. ASSUME NEW r \in Row, NEW good \in BOOLEAN,
               rows' = [rows EXCEPT ![r].status = "CONFIRMED"],
               journals' = Append(journals, [of |-> r, live |-> TRUE, good |-> good]),
               Outdate(Call, {r, "journals"})
        PROVE  \E things \in SUBSET (Row \cup {"journals"}) : Changed(things)
    <3>1. [rows[r] EXCEPT !.status = "CONFIRMED"] \in Material
      BY <2>0 DEF Material
    <3>2. rows' \in [Row -> Material] /\ \A q \in Row : rows'[q] = rows[q] \/ q = r
      BY <1>1, <2>1, <3>1 DEF TypeOK
    <3>3. [of |-> r, live |-> TRUE, good |-> good] \in Journal
      BY DEF Journal
    <3>4. journals' \in Seq(Journal)
      BY <1>1, <2>1, <3>3 DEF TypeOK
    <3>5. {r, "journals"} \in SUBSET (Row \cup {"journals"})
      OBVIOUS
    <3>6. Changed({r, "journals"})
      BY <2>1, <3>2, <3>4 DEF Changed
    <3> QED BY <3>5, <3>6
  <2>2. ASSUME NEW r \in Row,
               rows' = [rows EXCEPT ![r].status = "PROJECT"],
               journals' = [i \in DOMAIN journals |->
                               [journals[i] EXCEPT !.live = @ /\ journals[i].of # r]],
               Outdate(Call, {r, "journals"})
        PROVE  \E things \in SUBSET (Row \cup {"journals"}) : Changed(things)
    <3>1. [rows[r] EXCEPT !.status = "PROJECT"] \in Material
      BY <2>0 DEF Material
    <3>2. rows' \in [Row -> Material] /\ \A q \in Row : rows'[q] = rows[q] \/ q = r
      BY <1>1, <2>2, <3>1 DEF TypeOK
    <3>3. ASSUME NEW i \in DOMAIN journals
          PROVE  [journals[i] EXCEPT !.live = @ /\ journals[i].of # r] \in Journal
      <4>1. journals[i] \in Journal
        BY <1>1 DEF TypeOK
      <4> QED BY <4>1 DEF Journal
    <3>4. journals' \in Seq(Journal)
      <4>1. DOMAIN journals = 1..Len(journals) /\ Len(journals) \in Nat
        BY <1>1 DEF TypeOK
      <4>2. journals' \in [1..Len(journals) -> Journal]
        BY <2>2, <3>3, <4>1
      <4> QED BY <4>1, <4>2
    <3>5. {r, "journals"} \in SUBSET (Row \cup {"journals"})
      OBVIOUS
    <3>6. Changed({r, "journals"})
      BY <2>2, <3>2, <3>4 DEF Changed
    <3> QED BY <3>5, <3>6
  <2>3. ASSUME NEW r \in Row,
               rows' \in {[rows EXCEPT ![r].rev = @ + 1], [rows EXCEPT ![r].status = "deleted"]},
               journals' = journals,
               Outdate(Call, {r})
        PROVE  \E things \in SUBSET (Row \cup {"journals"}) : Changed(things)
    <3>1. [rows[r] EXCEPT !.rev = @ + 1] \in Material
      <4>1. PICK mat : mat = rows[r]
        OBVIOUS
      <4>2. /\ mat = [status |-> mat.status, client |-> mat.client, rev |-> mat.rev]
            /\ mat.rev + 1 \in Nat /\ mat.client \in {"none", "company"}
            /\ mat.status \in {"PROJECT", "CONFIRMED", "deleted"}
        BY <2>0, <4>1
      <4>3. [mat EXCEPT !.rev = mat.rev + 1]
               = [status |-> mat.status, client |-> mat.client, rev |-> mat.rev + 1]
        BY <4>2
      <4> QED BY <4>1, <4>2, <4>3 DEF Material
    <3>2. [rows[r] EXCEPT !.status = "deleted"] \in Material
      BY <2>0 DEF Material
    <3>3. rows' \in [Row -> Material] /\ \A q \in Row : rows'[q] = rows[q] \/ q = r
      <4>1. PICK new \in Material : rows' = [rows EXCEPT ![r] = new]
        <5>1. CASE rows' = [rows EXCEPT ![r].rev = @ + 1]
          BY <3>1, <5>1
        <5>2. CASE rows' = [rows EXCEPT ![r].status = "deleted"]
          BY <3>2, <5>2
        <5> QED BY <2>3, <5>1, <5>2
      <4> QED BY <1>1, <4>1 DEF TypeOK
    <3>4. journals' \in Seq(Journal)
      BY <1>1, <2>3 DEF TypeOK
    <3>5. {r} \in SUBSET (Row \cup {"journals"})
      OBVIOUS
    <3>6. Changed({r})
      BY <2>3, <3>3, <3>4 DEF Changed
    <3> QED BY <3>5, <3>6
  <2>4. ASSUME journals' = Append(journals, [of |-> "hand", live |-> TRUE, good |-> TRUE]),
               rows' = rows,
               Outdate(Call, {"journals"})
        PROVE  \E things \in SUBSET (Row \cup {"journals"}) : Changed(things)
    <3>1. [of |-> "hand", live |-> TRUE, good |-> TRUE] \in Journal
      BY DEF Journal
    <3>2. journals' \in Seq(Journal)
      BY <1>1, <2>4, <3>1 DEF TypeOK
    <3>3. {"journals"} \in SUBSET (Row \cup {"journals"})
      OBVIOUS
    <3>4. Changed({"journals"})
      BY <1>1, <2>4, <3>2 DEF Changed, TypeOK
    <3> QED BY <3>3, <3>4
  <2> QED BY <2>1, <2>2, <2>3, <2>4 DEF ForeignStep
<1>4. stale' = [c \in Call |-> IF step[c] \in Running THEN stale[c] \cup things ELSE stale[c]]
  BY <1>3 DEF Changed, Outdate, Running
<1>5. TypeOK'
  <2>1. stale' \in [Call -> SUBSET (Row \cup {"journals"})]
    BY <1>1, <1>4 DEF TypeOK
  <2>2. foreign' \in Nat
    BY <1>1, <1>2 DEF TypeOK
  <2> QED BY <1>1, <1>2, <1>3, <2>1, <2>2 DEF TypeOK, report, Changed
<1>6. SentOnce'
  BY <1>2 DEF BankInv, SentOnce
<1>7. ASSUME NEW c \in Call PROVE CallInv(c)'
  <2>1. OwnUnchanged(c)
    BY <1>2 DEF OwnUnchanged, SameMail, report
  <2>2. BooksKept(c)
    BY <1>3, <1>4 DEF BooksKept, Changed
  <2> QED BY <2>1, <2>2, CallKept DEF BankInv
<1> QED BY <1>5, <1>6, <1>7 DEF BankInv

-----------------------------------------------------------------------------
(* The invariant. *)

LEMMA InitBank ==
    ASSUME Init
    PROVE  BankInv
<1>1. TypeOK
  <2>1. NewRow \in Material
    BY DEF NewRow, Material
  <2> QED BY <2>1 DEF Init, TypeOK, Step, Stop
<1>2. SentOnce
  BY DEF Init, SentOnce
<1>3. ASSUME NEW c \in Call PROVE CallInv(c)
  <2>1. /\ step[c] = "list" /\ review[c] = NoPlan /\ plan[c] = NoPlan /\ outcome[c] = << >>
        /\ wrote[c] = {} /\ mayHave[c] = FALSE /\ stop[c] = "none" /\ mail = {}
    BY DEF Init
  <2>2. PlanInv(c)
    BY <2>1 DEF PlanInv, IsPlan, Running, Looks
  <2>3. OutcomeInv(c)
    <3>1. Len(outcome[c]) = 0 /\ plan[c].ops = << >>
      BY <2>1 DEF NoPlan
    <3>2. ~\E i \in 1..Len(outcome[c]) : outcome[c][i] # "failed"
      BY <3>1
    <3>3. mayHave[c] = \E i \in 1..Len(outcome[c]) : outcome[c][i] # "failed"
      BY <2>1, <3>2
    <3> QED BY <2>1, <3>1, <3>3 DEF OutcomeInv
  <2>4. WroteInv(c) /\ MailInv(c)
    BY <2>1 DEF WroteInv, MailInv
  <2>5. KnowInv(c)
    BY <2>1 DEF KnowInv, ConfirmsLater, DeletesLater, RemovesLater, SentFor, Looks
  <2> QED BY <2>2, <2>3, <2>4, <2>5 DEF CallInv
<1> QED BY <1>1, <1>2, <1>3 DEF BankInv

LEMMA StepBank ==
    ASSUME BankInv, [Next]_vars
    PROVE  BankInv'
<1>1. CASE UNCHANGED vars
  <2>1. \A c \in Call : OwnUnchanged(c) /\ BooksKept(c)
    BY <1>1 DEF vars, service, report, OwnUnchanged, SameMail, BooksKept
  <2>2. \A c \in Call : CallInv(c)'
    BY <2>1, CallKept DEF BankInv
  <2>3. TypeOK' /\ SentOnce'
    BY <1>1 DEF BankInv, vars, service, report, TypeOK, SentOnce
  <2> QED BY <2>2, <2>3 DEF BankInv
<1>2. ASSUME NEW c \in Call, CallStep(c) PROVE BankInv'
  <2>1. CASE List(c)
    BY <2>1, ListStep
  <2>2. CASE Match(c)
    BY <2>2, DryRunStep, MatchStep
  <2>3. CASE LookAtSource(c)
    BY <2>3, LookAtSourceStep
  <2>4. CASE LookAtOther(c)
    BY <2>4, LookAtOtherStep
  <2>5. CASE Review(c)
    BY <2>5, ReviewStep
  <2>6. CASE LookAtJournals(c)
    BY <2>6, LookAtJournalsStep
  <2>7. CASE LookAtBooked(c)
    BY <2>7, LookAtBookedStep
  <2>8. CASE LookAtMirror(c)
    BY <2>8, LookAtMirrorStep
  <2>9. CASE LookAtCounterpart(c)
    BY <2>9, LookAtCounterpartStep
  <2>10. CASE LookAtProof(c)
    BY <2>10, LookAtProofStep
  <2>11. CASE LookAtRow(c)
    BY <2>11, LookAtRowStep
  <2>12. CASE Answered(c)
    BY <2>12, AnsweredStep
  <2>13. CASE Unknown(c)
    BY <2>13, UnknownStep
  <2>14. CASE Recover(c)
    BY <2>14, RecoverStep
  <2> QED BY <1>2, <2>1, <2>2, <2>3, <2>4, <2>5, <2>6, <2>7, <2>8, <2>9, <2>10, <2>11, <2>12,
             <2>13, <2>14 DEF CallStep
<1>3. ASSUME NEW c \in Call, Execute(c) PROVE BankInv'
  BY <1>3, ExecuteStep
<1>4. ASSUME NEW c \in Call, ReadFails(c) PROVE BankInv'
  BY <1>4, ReadFailsStep
<1>5. ASSUME NEW c \in Call, Die(c) PROVE BankInv'
  BY <1>5, DieStep
<1>6. ASSUME NEW c \in Call, ServiceStep(c) PROVE BankInv'
  BY <1>6, ServiceStepKeeps
<1>7. CASE ForeignStep
  BY <1>7, ForeignStepKeeps
<1> QED BY <1>1, <1>2, <1>3, <1>4, <1>5, <1>6, <1>7 DEF Next

(* For any number of calls, deaths, faults and steps of the accountant: the inductive
   invariant of the reconciliation. *)
THEOREM BankInvariant == Spec => []BankInv
<1>1. Init => BankInv
  BY InitBank
<1>2. BankInv /\ [Next]_vars => BankInv'
  BY StepBank
<1> QED BY <1>1, <1>2, PTL DEF Spec

(* A request that its call waits for carries what the call has seen. *)
LEMMA WaitedFor ==
    ASSUME BankInv, NEW m \in mail, Waiting(m)
    PROVE  /\ m.call \in Call /\ SentFor(m.call, m.op)
           /\ KnowInv(m.call)
           /\ m.row = IF m.op = "delete" THEN Other(plan[m.call].source) ELSE plan[m.call].source
           /\ Other(Other(m.row)) = m.row
<1>1. m.call \in Call /\ m.row \in Row
  BY DEF BankInv, TypeOK, Message
<1>2. CallInv(m.call)
  BY <1>1 DEF BankInv
<1>3. SentFor(m.call, m.op)
  BY DEF Waiting, SentFor, OnItsWay
<1>4. m.row = IF m.op = "delete" THEN Other(plan[m.call].source) ELSE plan[m.call].source
  BY <1>2 DEF CallInv, MailInv
<1>5. Other(Other(m.row)) = m.row
  BY <1>1 DEF Other, Row
<1> QED BY <1>1, <1>2, <1>3, <1>4, <1>5 DEF CallInv

(* However calls, faults and the accountant interleave, a mirror row is deleted only while
   the movement it records is booked by the registration of the other row, and as it was
   reviewed, but for a change after the last look. *)
THEOREM MovementsAreKept == Spec => MovementIsKept
<1> DEFINE Kept(m) ==
        Lands(m, "delete") \/ Lands(m, "mirror") =>
            /\ \/ \E i \in Registrations(Other(m.row)) : journals[i].good
               \/ stale[m.call] \cap {Other(m.row), "journals"} # {}
            /\ rows[m.row] = plan[m.call].material[m.row] \/ m.row \in stale[m.call]
<1>1. ASSUME BankInv, NEW m \in mail PROVE Kept(m)
  <2>1. CASE Lands(m, "delete")
    <3>1. Waiting(m) /\ m.op = "delete"
      BY <2>1 DEF Lands
    <3>2. SentFor(m.call, "delete") /\ KnowInv(m.call)
      BY <1>1, <3>1, WaitedFor
    <3>3. m.row = Other(plan[m.call].source) /\ plan[m.call].source \in Row
      <4>1. m.row = Other(plan[m.call].source) /\ m.call \in Call
        BY <1>1, <3>1, WaitedFor
      <4>2. IsPlan(plan[m.call])
        BY <1>1, <4>1 DEF BankInv, CallInv, PlanInv
      <4> QED BY <4>1, <4>2, PlanOrder
    <3>4. Other(m.row) = plan[m.call].source
      BY <3>3 DEF Other, Row
    <3>5. MovedBy(m.call, plan[m.call].source)
      BY <3>2 DEF KnowInv, SentFor, DeletesLater
    <3>6. AsReviewed(m.call, Other(plan[m.call].source))
      BY <3>2 DEF KnowInv
    <3> QED BY <3>3, <3>4, <3>5, <3>6 DEF MovedBy, Moves, AsReviewed
  <2>2. CASE Lands(m, "mirror")
    <3>1. Waiting(m) /\ m.op = "mirror"
      BY <2>2 DEF Lands
    <3>2. SentFor(m.call, "mirror") /\ KnowInv(m.call) /\ m.row = plan[m.call].source
      BY <1>1, <3>1, WaitedFor
    <3>3. MovedBy(m.call, Other(plan[m.call].source))
      BY <3>2 DEF KnowInv, SentFor, RemovesLater
    <3>4. AsReviewed(m.call, plan[m.call].source)
      BY <3>2 DEF KnowInv
    <3> QED BY <3>2, <3>3, <3>4 DEF MovedBy, Moves, AsReviewed
  <2> QED BY <2>1, <2>2
<1>2. BankInv => [\A m \in mail : Kept(m)]_vars
  BY <1>1
<1> QED BY <1>2, BankInvariant, PTL DEF MovementIsKept

(* A transfer is not registered over a confirmed row, its own or its mirror's, nor over a
   journal that books it, but for what came after the last look. *)
THEOREM TransfersBookedOnce == Spec => NotBookedTwice
<1> DEFINE Once(m) ==
        Lands(m, "confirm") =>
            /\ rows[m.row].status = "PROJECT" \/ m.row \in stale[m.call]
            /\ Pair(m.call) => \/ rows[Other(m.row)].status = "PROJECT"
                               \/ Other(m.row) \in stale[m.call]
            /\ Booking(journals) = {} \/ "journals" \in stale[m.call]
<1>1. ASSUME BankInv, NEW m \in mail PROVE Once(m)
  <2>1. SUFFICES ASSUME Lands(m, "confirm") PROVE Once(m)
    OBVIOUS
  <2>2. Waiting(m) /\ m.op = "confirm"
    BY <2>1 DEF Lands
  <2>3. SentFor(m.call, "confirm") /\ KnowInv(m.call) /\ m.row = plan[m.call].source
    BY <1>1, <2>2, WaitedFor
  <2>4. Unbooked(m.call) /\ OtherPending(m.call) /\ SourcePending(m.call)
    BY <2>3 DEF KnowInv, ConfirmsLater
  <2> QED BY <2>3, <2>4 DEF Unbooked, OtherPending, SourcePending
<1>2. BankInv => [\A m \in mail : Once(m)]_vars
  BY <1>1
<1> QED BY <1>2, BankInvariant, PTL DEF NotBookedTwice

(* The report of an execute tells the truth about the rows and stops where the run did. *)
THEOREM ReconciliationReportsAreTrue == Spec => []ReportIsTrue
<1>1. BankInv => ReportIsTrue
  <2> SUFFICES ASSUME BankInv, NEW c \in Call
               PROVE  PlanRun(c)!ReportTellsTruth /\ PlanRun(c)!StopsAtTheFirst
    BY DEF ReportIsTrue
  <2>1. /\ outcome[c] \in Seq(Part) /\ mayHave[c] \in BOOLEAN
        /\ OutcomeInv(c) /\ WroteInv(c) /\ IsPlan(plan[c])
    BY DEF BankInv, TypeOK, CallInv, PlanInv
  <2>2. /\ Len(outcome[c]) \in Nat /\ Len(plan[c].ops) \in Nat
        /\ DOMAIN plan[c].ops = 1..Len(plan[c].ops)
    <3>1. Len(plan[c].ops) \in 0..3
      BY <2>1, PlanOrder
    <3>2. DOMAIN plan[c].ops = 1..Len(plan[c].ops)
      BY <2>1 DEF IsPlan, NoPlan, PairPlans, RowPlans
    <3> QED BY <2>1, <3>1, <3>2
  <2>3. PICK touched : touched = {i \in DOMAIN plan[c].ops : plan[c].ops[i] \in wrote[c]}
    OBVIOUS
  <2>4. Doing(c) = "over" <=> step[c] = "over"
    BY DEF Doing, Looks
  <2>5. PICK run : run = [i \in DOMAIN plan[c].ops |-> i] /\ Len(run) = Len(plan[c].ops)
    <3>1. PICK n \in Nat : n = Len(plan[c].ops)
      BY <2>2
    <3>2. PICK run : run = [i \in 1..n |-> i]
      OBVIOUS
    <3>3. run \in Seq(Nat) /\ DOMAIN run = 1..n
      BY <3>2
    <3>4. Len(run) = n
      BY <3>3
    <3> QED BY <2>2, <3>1, <3>2, <3>4
  <2>6. ASSUME step[c] = "over"
        PROVE  /\ \A i \in 1..Len(outcome[c]) : outcome[c][i] = "completed" => i \in touched
               /\ \A i \in touched : i \in 1..Len(outcome[c]) /\ outcome[c][i] # "failed"
               /\ touched # {} => mayHave[c]
    <3>1. \A i \in 1..Len(outcome[c]) : i \in DOMAIN plan[c].ops
      BY <2>1, <2>2 DEF OutcomeInv
    <3>2. \A i \in 1..Len(outcome[c]) : outcome[c][i] = "completed" => i \in touched
      BY <2>1, <2>3, <3>1 DEF WroteInv
    <3>3. \A i \in touched : i \in 1..Len(outcome[c]) /\ outcome[c][i] # "failed"
      BY <2>1, <2>2, <2>3, <2>6 DEF WroteInv
    <3>4. touched # {} => mayHave[c]
      BY <2>1, <3>3 DEF OutcomeInv
    <3> QED BY <3>2, <3>3, <3>4
  <2>7. PlanRun(c)!ReportTellsTruth
    <3>1. SUFFICES ASSUME step[c] = "over"
                   PROVE  /\ PlanRun(c)!Reported("completed") \subseteq touched
                          /\ touched \cap (PlanRun(c)!Reported("skipped")
                                              \cup PlanRun(c)!NotAttempted) = {}
                          /\ (touched # {} => mayHave[c])
                          /\ (PlanRun(c)!Status \in {"plan_drift", "mutation_failed"}
                                 => touched = {})
      BY <2>3, <2>4 DEF PlanRun!ReportTellsTruth
    <3>2. PlanRun(c)!Reported("completed") \subseteq touched
      BY <2>6, <3>1 DEF PlanRun!Reported
    <3>3. \A i \in touched : i \notin PlanRun(c)!Reported("skipped")
      <4>1. \A i \in 1..Len(outcome[c]) : outcome[c][i] # "skipped"
        BY <2>1 DEF Part
      <4> QED BY <4>1 DEF PlanRun!Reported
    <3>4. \A i \in touched : i \notin PlanRun(c)!NotAttempted
      BY <2>2, <2>6, <3>1 DEF PlanRun!NotAttempted
    <3>5. PlanRun(c)!Status \in {"plan_drift", "mutation_failed"} => touched = {}
      BY <2>6, <3>1 DEF PlanRun!Status
    <3> QED BY <2>6, <3>1, <3>2, <3>3, <3>4, <3>5
  <2>8. PlanRun(c)!StopsAtTheFirst
    BY <2>1, <2>2, <2>4, <2>5 DEF PlanRun!StopsAtTheFirst, OutcomeInv
  <2> QED BY <2>7, <2>8
<1> QED BY <1>1, BankInvariant, PTL

=============================================================================
