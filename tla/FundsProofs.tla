------------------------------ MODULE FundsProofs ------------------------------
(***************************************************************************)
(* Proofs about the wallet: sums over its ledger, the account statement,   *)
(* the requests that administrators review and the deposits of payment     *)
(* providers, for any number of requests, administrators, webhooks, faults *)
(* and amounts.                                                            *)
(***************************************************************************)
EXTENDS PspDeposits, LedgerRequests, FiniteSetTheorems, SequenceTheorems,
        NaturalsInduction, WellFoundedInduction, TLAPS

---------------------------------------------------------------------------
(* Sums.                                                                   *)

\* A non-empty set of naturals has a least member.
LEMMA LeastMember ==
    ASSUME NEW T, T \subseteq Nat, T # {}
    PROVE  \E x \in T : \A y \in T : x <= y
<1> DEFINE Below == {p \in Nat \X Nat : p[1] < p[2]}
<1>1. ~ \E f \in [Nat -> Nat] : \A n \in Nat : f[n + 1] < f[n]
  BY NatLessThanWellFounded DEF OpToRel, IsWellFoundedOn
<1>2. PICK x \in T : \A y \in T : ~ (<<y, x>> \in Below)
  BY <1>1, WFMin DEF IsWellFoundedOn
<1>3. \A y \in T : y < x => <<y, x>> \in Below
  OBVIOUS
<1>4. \A y \in T : ~ (y < x)
  BY <1>2, <1>3
<1> QED BY <1>4

\* f holds the sums of the first entries of v.
SumsUpTo(v, f, m) ==
    /\ f \in [0 .. m -> Int]
    /\ f[0] = 0
    /\ \A n \in 1 .. m : f[n] = f[n - 1] + v[n]

LEMMA SumsExist ==
    ASSUME NEW v \in Seq(Int), NEW m \in 0 .. Len(v)
    PROVE  \E f : SumsUpTo(v, f, m)
<1> DEFINE T == {n \in 0 .. Len(v) : ~ \E f : SumsUpTo(v, f, n)}
<1>1. SUFFICES ASSUME T # {} PROVE FALSE
  OBVIOUS
<1>2. PICK n \in T : \A y \in T : n <= y
  <2>1. T \subseteq Nat
    OBVIOUS
  <2> QED BY <1>1, <2>1, LeastMember
<1>3. CASE n = 0
  <2>1. SumsUpTo(v, [i \in 0 .. 0 |-> 0], 0)
    BY DEF SumsUpTo
  <2> QED BY <1>2, <1>3, <2>1
<1>4. CASE n # 0
  <2>1. n - 1 \in 0 .. Len(v) /\ n - 1 \notin T
    BY <1>2, <1>4
  <2>2. PICK f : SumsUpTo(v, f, n - 1)
    BY <2>1
  <2> DEFINE g == [i \in 0 .. n |-> IF i = n THEN f[n - 1] + v[n] ELSE f[i]]
  <2>3. v[n] \in Int /\ f[n - 1] \in Int
    BY <1>2, <1>4, <2>2 DEF SumsUpTo
  <2>4. g \in [0 .. n -> Int]
    BY <1>2, <1>4, <2>2, <2>3 DEF SumsUpTo
  <2>5. g[0] = 0 /\ \A i \in 1 .. n : g[i] = g[i - 1] + v[i]
    BY <1>2, <1>4, <2>2 DEF SumsUpTo
  <2>6. SumsUpTo(v, g, n)
    BY <2>4, <2>5 DEF SumsUpTo
  <2> QED BY <1>2, <2>6
<1> QED BY <1>3, <1>4

\* Total is the last of the sums.
LEMMA TotalIsSum ==
    ASSUME NEW v \in Seq(Int)
    PROVE  \E f : SumsUpTo(v, f, Len(v)) /\ Total(v) = f[Len(v)]
<1> DEFINE Rec(f) == f = [n \in 0 .. Len(v) |-> IF n = 0 THEN 0 ELSE f[n - 1] + v[n]]
           sums == CHOOSE f : Rec(f)
<1>1. PICK g : SumsUpTo(v, g, Len(v))
  BY SumsExist
<1>2. Rec(g)
  BY <1>1 DEF SumsUpTo
<1>3. Rec(sums)
  BY <1>2
<1>4. Total(v) = sums[Len(v)]
  BY DEF Total
<1> HIDE DEF sums
<1>5. sums[0] = 0 /\ \A n \in 1 .. Len(v) : sums[n] = sums[n - 1] + v[n]
  <2>1. Len(v) \in Nat
    OBVIOUS
  <2>2. \A n \in 0 .. Len(v) : sums[n] = IF n = 0 THEN 0 ELSE sums[n - 1] + v[n]
    BY <1>3
  <2> QED BY <2>1, <2>2
<1> DEFINE T == {n \in 0 .. Len(v) : sums[n] # g[n]}
<1>6. T = {}
  <2>1. SUFFICES ASSUME T # {} PROVE FALSE
    OBVIOUS
  <2>2. PICK n \in T : \A y \in T : n <= y
    <3>1. T \subseteq Nat
      OBVIOUS
    <3> QED BY <2>1, <3>1, LeastMember
  <2>3. n # 0
    BY <1>1, <1>5, <2>2 DEF SumsUpTo
  <2>4. n - 1 \in 0 .. Len(v) /\ n - 1 \notin T
    BY <2>2, <2>3
  <2> QED BY <1>1, <1>5, <2>2, <2>3, <2>4 DEF SumsUpTo
<1>7. Total(v) = g[Len(v)]
  BY <1>4, <1>6
<1> QED BY <1>1, <1>7

LEMMA TotalEmpty == Total(<<>>) = 0
<1>1. <<>> \in Seq(Int) /\ Len(<<>>) = 0
  BY EmptySeq
<1>2. PICK f : SumsUpTo(<<>>, f, 0) /\ Total(<<>>) = f[0]
  BY <1>1, TotalIsSum
<1> QED BY <1>2 DEF SumsUpTo

LEMMA TotalType == \A v \in Seq(Int) : Total(v) \in Int
<1> SUFFICES ASSUME NEW v \in Seq(Int) PROVE Total(v) \in Int
  OBVIOUS
<1>1. PICK f : SumsUpTo(v, f, Len(v)) /\ Total(v) = f[Len(v)]
  BY TotalIsSum
<1> QED BY <1>1 DEF SumsUpTo

\* One more entry adds to the total.
LEMMA TotalAppend ==
    ASSUME NEW v \in Seq(Int), NEW w \in Seq(Int), Len(w) = Len(v) + 1,
           \A i \in 1 .. Len(v) : v[i] = w[i]
    PROVE  Total(w) = Total(v) + w[Len(w)]
<1>1. PICK f : SumsUpTo(v, f, Len(v)) /\ Total(v) = f[Len(v)]
  BY TotalIsSum
<1>2. PICK g : SumsUpTo(w, g, Len(w)) /\ Total(w) = g[Len(w)]
  BY TotalIsSum
<1> DEFINE T == {n \in 0 .. Len(v) : f[n] # g[n]}
<1>3. T = {}
  <2>1. SUFFICES ASSUME T # {} PROVE FALSE
    OBVIOUS
  <2>2. PICK n \in T : \A y \in T : n <= y
    <3>1. T \subseteq Nat
      OBVIOUS
    <3> QED BY <2>1, <3>1, LeastMember
  <2>3. n # 0
    BY <1>1, <1>2, <2>2 DEF SumsUpTo
  <2>4. n - 1 \in 0 .. Len(v) /\ n - 1 \notin T
    BY <2>2, <2>3
  <2> QED BY <1>1, <1>2, <2>2, <2>3, <2>4 DEF SumsUpTo
<1>4. Len(w) \in 1 .. Len(w) /\ Len(w) - 1 = Len(v)
  OBVIOUS
<1>5. g[Len(w)] = g[Len(v)] + w[Len(w)]
  BY <1>2, <1>4 DEF SumsUpTo
<1> QED BY <1>1, <1>2, <1>3, <1>5
---------------------------------------------------------------------------
(* The ledger.                                                             *)

Rows == [type : Types, ref : Requests \cup Deposits \cup {"position"},
         amount : Int, running : Int]

WalletTypeOK ==
    /\ balance \in Nat
    /\ locked \in Nat
    /\ ledger \in Seq(Rows)

\* A posting moves the balance by what its entry adds to a statement, and the
\* entry carries the new balance or none.
Posting(e) ==
    /\ e \in Rows
    /\ ledger' = Append(ledger, e)
    /\ balance' = balance + NetEffect(e)
    /\ e.running \in {NoRunning, balance'}

\* What a step does to the wallet: nothing, a margin entry, or the first entry
\* of a request, by the request's amount.
MarginMoves ==
    /\ balance' = balance
    /\ \E e \in Rows : Posting(e) /\ e.ref = "position"
FirstEntry(r) ==
    /\ Posted(r) = {}
    /\ balance' = balance + Amount[r]
    /\ \E e \in Rows : Posting(e) /\ e.ref = r /\ e.amount = Amount[r]

LEMMA NetEffectType == \A e \in Rows : NetEffect(e) \in Int
  BY DEF Rows, Types, NetEffect, PnlTypes, DepositTypes, AbsAmount

LEMMA CreditPosts ==
    ASSUME WalletTypeOK, NEW type \in DepositTypes, NEW amount \in Int,
           NEW ref \in Requests \cup Deposits, Credit(type, ref, amount)
    PROVE  WalletTypeOK' /\ Posting(Row(type, ref, amount, balance + amount))
<1> DEFINE e == Row(type, ref, amount, balance + amount)
<1>1. e \in Rows /\ e.running = balance + amount
  BY DEF Row, Rows, Types, DepositTypes, WalletTypeOK
<1>2. NetEffect(e) = amount
  BY DEF Credit, Row, NetEffect, PnlTypes, DepositTypes
<1>3. balance' = balance + amount /\ locked' = locked /\ ledger' = Append(ledger, e) /\ amount > 0
  BY DEF Credit
<1> HIDE DEF e
<1>4. WalletTypeOK'
  BY <1>1, <1>3 DEF WalletTypeOK
<1> QED BY <1>1, <1>2, <1>3, <1>4 DEF Posting, e

LEMMA DebitPosts ==
    ASSUME WalletTypeOK, NEW amount \in Int, NEW ref \in Requests \cup Deposits,
           Debit("WITHDRAW_REQUEST", ref, amount)
    PROVE  WalletTypeOK' /\ Posting(Row("WITHDRAW_REQUEST", ref, -amount, balance - amount))
<1> DEFINE e == Row("WITHDRAW_REQUEST", ref, -amount, balance - amount)
<1>1. e \in Rows /\ e.running = balance - amount
  BY DEF Row, Rows, Types, WalletTypeOK
<1>2. NetEffect(e) = -amount
  BY DEF Debit, Row, NetEffect, PnlTypes, DepositTypes
<1>3. /\ balance' = balance - amount /\ locked' = locked /\ ledger' = Append(ledger, e)
      /\ balance >= amount
  BY DEF Debit
<1> HIDE DEF e
<1>4. WalletTypeOK'
  BY <1>1, <1>3 DEF WalletTypeOK
<1>5. balance' = balance + NetEffect(e)
  BY <1>2, <1>3 DEF WalletTypeOK
<1> QED BY <1>1, <1>3, <1>4, <1>5 DEF Posting, e

LEMMA MarginPosts ==
    ASSUME WalletTypeOK, LockMargin("position", 1) \/ ReleaseMargin("position", 1)
    PROVE  WalletTypeOK' /\ MarginMoves
<1>1. CASE LockMargin("position", 1)
  <2> DEFINE e == Row("MARGIN_RESERVED", "position", -1, NoRunning)
  <2>1. e \in Rows /\ e.running = NoRunning /\ NetEffect(e) = 0 /\ e.ref = "position"
    BY DEF Row, Rows, Types, NoRunning, NetEffect, PnlTypes, DepositTypes
  <2>2. balance' = balance /\ locked' = locked + 1 /\ ledger' = Append(ledger, e)
    BY <1>1 DEF LockMargin
  <2> HIDE DEF e
  <2> QED BY <2>1, <2>2 DEF WalletTypeOK, Posting, MarginMoves
<1>2. CASE ReleaseMargin("position", 1)
  <2> DEFINE safe == IF locked < 1 THEN locked ELSE 1
             e == Row("MARGIN_RELEASED", "position", safe, NoRunning)
  <2>1. /\ balance' = balance /\ locked' = locked - safe /\ ledger' = Append(ledger, e)
        /\ safe > 0 /\ safe \in Nat
    BY <1>2 DEF ReleaseMargin, WalletTypeOK
  <2>2. locked' \in Nat
    BY <2>1 DEF WalletTypeOK
  <2> HIDE DEF safe
  <2>3. e \in Rows /\ e.running = NoRunning /\ NetEffect(e) = 0 /\ e.ref = "position"
    BY <2>1 DEF Row, Rows, Types, NoRunning, NetEffect, PnlTypes, DepositTypes
  <2> HIDE DEF e
  <2> QED BY <2>1, <2>2, <2>3 DEF WalletTypeOK, Posting, MarginMoves
<1> QED BY <1>1, <1>2

\* What a statement of the period after the first k entries adds up.
Nets(k) == [i \in 1 .. Len(ledger) - k |-> NetEffect(ledger[k + i])]

Adds == \A k \in 0 .. Len(ledger) :
            Nets(k) \in Seq(Int) /\ Statement(k).netChange = Total(Nets(k))

LEMMA StatementAdds == WalletTypeOK => Adds
<1> SUFFICES ASSUME WalletTypeOK, NEW k \in 0 .. Len(ledger)
             PROVE  Nets(k) \in Seq(Int) /\ Statement(k).netChange = Total(Nets(k))
  BY DEF Adds
<1> DEFINE period == SubSeq(ledger, k + 1, Len(ledger))
<1>1. Len(ledger) \in Nat /\ Len(ledger) - k \in Nat
  BY DEF WalletTypeOK
<1>2. Nets(k) \in Seq(Int)
  <2>1. \A i \in 1 .. Len(ledger) - k : ledger[k + i] \in Rows
    BY <1>1 DEF WalletTypeOK
  <2>2. \A i \in 1 .. Len(ledger) - k : NetEffect(ledger[k + i]) \in Int
    BY <2>1, NetEffectType
  <2> QED BY <1>1, <2>2 DEF Nets
<1>3. Len(period) = Len(ledger) - k /\ \A i \in 1 .. Len(ledger) - k : period[i] = ledger[k + i]
  BY <1>1 DEF WalletTypeOK
<1>4. [i \in 1 .. Len(period) |-> NetEffect(period[i])] = Nets(k)
  BY <1>3 DEF Nets
<1> QED BY <1>2, <1>4 DEF Statement

LEMMA PostingReconciles ==
    ASSUME WalletTypeOK, WalletTypeOK', StatementReconciles, NEW e \in Rows, Posting(e)
    PROVE  StatementReconciles'
<1> DEFINE n == Len(ledger)
<1>1. /\ n \in Nat /\ Len(ledger') = n + 1 /\ ledger'[n + 1] = e
      /\ \A i \in 1 .. n : ledger'[i] = ledger[i]
  BY DEF WalletTypeOK, Posting
<1>2. NetEffect(e) \in Int /\ balance' = balance + NetEffect(e)
  BY NetEffectType DEF Posting
<1>3. ASSUME NEW k \in 0 .. n + 1, k = 0 \/ ledger'[k].running # NoRunning
      PROVE  Statement(k)'.opening + Statement(k)'.netChange = Statement(k)'.closing
  <2>1. /\ Nets(k)' \in Seq(Int) /\ Statement(k)'.netChange = Total(Nets(k)')
        /\ Statement(k)'.opening = Opening(k)' /\ Statement(k)'.closing = balance'
    <3>1. Adds'
      BY StatementAdds, PTL
    <3> QED BY <1>1, <3>1 DEF Adds, Statement
  <2>2. CASE k = n + 1
    <3>1. Nets(k)' = <<>>
      BY <1>1, <2>2 DEF Nets
    <3>2. Opening(k)' = balance'
      BY <1>1, <1>3, <2>2 DEF Opening, Posting
    <3> QED BY <2>1, <3>1, <3>2, TotalEmpty DEF WalletTypeOK
  <2>3. CASE k \in 0 .. n
    <3>1. Nets(k) \in Seq(Int) /\ Statement(k).netChange = Total(Nets(k))
      BY <2>3, StatementAdds DEF Adds
    <3>2. k = 0 \/ ledger[k].running # NoRunning
      BY <1>1, <1>3, <2>3
    <3>3. Opening(k)' = Opening(k)
      BY <1>1, <2>3 DEF Opening
    <3>4. Opening(k) + Total(Nets(k)) = balance
      BY <2>3, <3>1, <3>2 DEF StatementReconciles, Statement
    <3>5. /\ Len(Nets(k)) = n - k /\ Len(Nets(k)') = n + 1 - k
          /\ Nets(k)'[n + 1 - k] = NetEffect(e)
          /\ \A i \in 1 .. n - k : Nets(k)'[i] = Nets(k)[i]
      <4>1. Nets(k)' = [i \in 1 .. n + 1 - k |-> NetEffect(ledger'[k + i])]
        BY <1>1 DEF Nets, NetEffect, PnlTypes, DepositTypes, AbsAmount
      <4>2. Nets(k) = [i \in 1 .. n - k |-> NetEffect(ledger[k + i])]
        BY DEF Nets
      <4>3. n - k \in Nat /\ n + 1 - k \in 1 .. n + 1 - k /\ k + (n + 1 - k) = n + 1
        BY <1>1, <2>3
      <4>4. \A i \in 1 .. n - k : i \in 1 .. n + 1 - k /\ ledger'[k + i] = ledger[k + i]
        BY <1>1, <2>3
      <4>5. Len(Nets(k)) = n - k /\ Len(Nets(k)') = n + 1 - k
        BY <4>1, <4>2, <4>3
      <4>6. Nets(k)'[n + 1 - k] = NetEffect(e)
        BY <1>1, <4>1, <4>3
      <4>7. \A i \in 1 .. n - k : Nets(k)'[i] = Nets(k)[i]
        BY <4>1, <4>2, <4>4
      <4> QED BY <4>5, <4>6, <4>7
    <3>6. Total(Nets(k)') = Total(Nets(k)) + NetEffect(e)
      <4>1. PICK v \in Seq(Int) : v = Nets(k)
        BY <3>1
      <4>2. PICK w \in Seq(Int) : w = Nets(k)'
        BY <2>1
      <4> DEFINE m == n - k
      <4>3. m \in Nat /\ m = n - k /\ n + 1 - k = m + 1
        BY <1>1, <2>3
      <4> HIDE DEF m
      <4>4. Len(v) = m /\ Len(w) = m + 1 /\ w[m + 1] = NetEffect(e)
        BY <3>5, <4>1, <4>2, <4>3
      <4>5. \A i \in 1 .. m : v[i] = w[i]
        BY <3>5, <4>1, <4>2, <4>3
      <4>6. Total(w) = Total(v) + w[m + 1]
        BY <4>4, <4>5, TotalAppend
      <4> QED BY <4>1, <4>2, <4>4, <4>6
    <3>7. Opening(k) \in Int /\ Total(Nets(k)) \in Int
      <4>1. k # 0 => ledger[k] \in Rows
        BY <1>1, <2>3 DEF WalletTypeOK
      <4> QED BY <3>1, <4>1, TotalType DEF Opening, Rows
    <3> QED BY <1>2, <2>1, <3>3, <3>4, <3>6, <3>7
  <2> QED BY <1>1, <2>2, <2>3
<1> QED BY <1>1, <1>3 DEF StatementReconciles
---------------------------------------------------------------------------
(* The requests.                                                           *)

RequestsTypeOK ==
    /\ request \in [Requests -> RequestStatus]
    /\ admin \in [Admins -> {AdminIdle}
                      \cup [pc : {"approve", "reject", "rejecting"}, req : Requests]]

\* The requests of administrators are all that moves the balance.
AllMoved == balance = Moved

RequestsInv ==
    /\ WalletTypeOK
    /\ RequestsTypeOK
    /\ StatementReconciles
    /\ AllMoved

LEMMA BusyAdmin ==
    ASSUME RequestsTypeOK, NEW a \in Admins, admin[a].pc \in {"approve", "reject", "rejecting"}
    PROVE  admin[a].req \in Requests
<1>1. admin[a] # AdminIdle
  BY DEF AdminIdle
<1> QED BY <1>1 DEF RequestsTypeOK

LEMMA AdminReturns ==
    ASSUME RequestsTypeOK, NEW a \in Admins, admin' = [admin EXCEPT ![a] = AdminIdle],
           request' \in [Requests -> RequestStatus]
    PROVE  RequestsTypeOK'
<1> HIDE DEF AdminIdle
<1> QED BY DEF RequestsTypeOK

LEMMA RequestsStepWallet ==
    ASSUME WalletTypeOK, RequestsTypeOK, [RequestsNext]_requestVars
    PROVE  /\ WalletTypeOK' /\ RequestsTypeOK'
           /\ \/ UNCHANGED walletVars
              \/ MarginMoves
              \/ \E r \in Requests : FirstEntry(r)
<1> USE LedgerRequestsAssumption
<1>0. UNCHANGED walletVars => WalletTypeOK'
  BY DEF walletVars, WalletTypeOK
<1>1. ASSUME NEW r \in Requests, Ask(r)
      PROVE  UNCHANGED walletVars /\ RequestsTypeOK'
  <2>1. PICK s \in RequestStatus : request' = [request EXCEPT ![r] = s]
    BY <1>1 DEF Ask, RequestStatus
  <2> QED BY <1>1, <2>1 DEF Ask, RequestsTypeOK
<1>2. ASSUME NEW a \in Admins, NEW r \in Requests, NEW verb \in {"approve", "reject"},
             Open(a, r, verb)
      PROVE  UNCHANGED walletVars /\ RequestsTypeOK'
  BY <1>2 DEF Open, RequestsTypeOK
<1>3. ASSUME NEW a \in Admins, ApproveDeposit(a)
      PROVE  WalletTypeOK' /\ RequestsTypeOK' /\ \E r \in Requests : FirstEntry(r)
  <2> DEFINE r == admin[a].req
             e == Row("ADMIN_CAPITAL_ALLOCATION", r, Amount[r], balance + Amount[r])
  <2>1. r \in Requests
    BY <1>3, BusyAdmin DEF ApproveDeposit
  <2>2. /\ ~Approved(r) /\ Credit("ADMIN_CAPITAL_ALLOCATION", r, Amount[r])
        /\ request' = AfterApproval(r) /\ admin' = [admin EXCEPT ![a] = AdminIdle]
    BY <1>3 DEF ApproveDeposit
  <2>3. Amount[r] \in Int /\ "ADMIN_CAPITAL_ALLOCATION" \in DepositTypes
    BY <2>1 DEF DepositTypes
  <2>4. WalletTypeOK' /\ Posting(e)
    BY <2>1, <2>2, <2>3, CreditPosts
  <2>5. e \in Rows /\ e.ref = r /\ e.amount = Amount[r]
        /\ balance' = balance + Amount[r]
    BY <2>2, <2>4 DEF Posting, Row, Credit
  <2>6. RequestsTypeOK'
    BY <2>1, <2>2, AdminReturns DEF AfterApproval, RequestsTypeOK, RequestStatus
  <2> QED BY <2>1, <2>2, <2>4, <2>5, <2>6 DEF FirstEntry, Approved
<1>4. ASSUME NEW a \in Admins, NEW pnl \in Pnls, ApproveWithdrawal(a, pnl)
      PROVE  WalletTypeOK' /\ RequestsTypeOK' /\ \E r \in Requests : FirstEntry(r)
  <2> DEFINE r == admin[a].req
             e == Row("WITHDRAW_REQUEST", r, -(-Amount[r]), balance - (-Amount[r]))
  <2>1. r \in Requests
    BY <1>4, BusyAdmin DEF ApproveWithdrawal
  <2>2. /\ ~Approved(r) /\ Debit("WITHDRAW_REQUEST", r, -Amount[r])
        /\ request' = AfterApproval(r) /\ admin' = [admin EXCEPT ![a] = AdminIdle]
    BY <1>4 DEF ApproveWithdrawal
  <2>3. -Amount[r] \in Int /\ -(-Amount[r]) = Amount[r]
    BY <2>1
  <2>4. WalletTypeOK' /\ Posting(e)
    BY <2>1, <2>2, <2>3, DebitPosts
  <2>5. e \in Rows /\ e.ref = r /\ e.amount = Amount[r]
    BY <2>3, <2>4 DEF Posting, Row
  <2>7. balance' = balance + Amount[r]
    BY <2>1, <2>2 DEF Debit, WalletTypeOK
  <2>6. RequestsTypeOK'
    BY <2>1, <2>2, AdminReturns DEF AfterApproval, RequestsTypeOK, RequestStatus
  <2> QED BY <2>1, <2>2, <2>4, <2>5, <2>6, <2>7 DEF FirstEntry, Approved
<1>5. ASSUME NEW a \in Admins,
             (\E pnl \in Pnls : ApprovalVoid(a, pnl)) \/ RejectRead(a) \/ RejectWrite(a)
      PROVE  UNCHANGED walletVars /\ RequestsTypeOK'
  <2>1. CASE \E pnl \in Pnls : ApprovalVoid(a, pnl)
    BY <2>1, AdminReturns DEF ApprovalVoid, RequestsTypeOK
  <2>2. CASE RejectRead(a)
    <3>1. admin[a].req \in Requests
      BY <2>2, BusyAdmin DEF RejectRead
    <3> QED BY <2>2, <3>1 DEF RejectRead, RequestsTypeOK
  <2>3. CASE RejectWrite(a)
    <3>1. admin[a].req \in Requests
      BY <2>3, BusyAdmin DEF RejectWrite
    <3> QED BY <2>3, <3>1, AdminReturns DEF RejectWrite, RequestsTypeOK, RequestStatus
  <2> QED BY <1>5, <2>1, <2>2, <2>3
<1>6. CASE TradingMargin /\ UNCHANGED <<request, admin>>
  <2>1. LockMargin("position", 1) \/ ReleaseMargin("position", 1)
    BY <1>6 DEF TradingMargin
  <2> QED BY <1>6, <2>1, MarginPosts DEF RequestsTypeOK
<1>7. CASE UNCHANGED requestVars
  BY <1>0, <1>7 DEF requestVars, RequestsTypeOK
<1> QED
  BY <1>0, <1>1, <1>2, <1>3, <1>4, <1>5, <1>6, <1>7 DEF RequestsNext

Moves(e) == IF e.ref \in Requests THEN e.amount ELSE 0

LEMMA PostingMoves ==
    ASSUME WalletTypeOK, NEW e \in Rows, Posting(e)
    PROVE  /\ Moved \in Int /\ Moved' = Moved + Moves(e)
           /\ \A ref : Posted(ref)' = IF e.ref = ref THEN Posted(ref) \cup {Len(ledger) + 1}
                                                  ELSE Posted(ref)
<1> DEFINE n == Len(ledger)
           v == [i \in 1 .. Len(ledger) |->
                    IF ledger[i].ref \in Requests THEN ledger[i].amount ELSE 0]
           w == [i \in 1 .. n + 1 |->
                    IF ledger'[i].ref \in Requests THEN ledger'[i].amount ELSE 0]
<1>1. /\ n \in Nat /\ Len(ledger') = n + 1 /\ ledger'[n + 1] = e
      /\ \A i \in 1 .. n : ledger'[i] = ledger[i] /\ ledger[i] \in Rows
  BY DEF WalletTypeOK, Posting
<1>2. v \in Seq(Int) /\ Len(v) = n
  BY <1>1 DEF Rows
<1>3. w \in Seq(Int) /\ Len(w) = n + 1
  BY <1>1 DEF Rows
<1>4. w[Len(w)] = Moves(e) /\ \A i \in 1 .. Len(v) : v[i] = w[i]
  BY <1>1, <1>2, <1>3 DEF Moves
<1>5. Moved = Total(v) /\ Moved' = Total(w)
  BY <1>1 DEF Moved, Total
<1> HIDE DEF v, w
<1>6. Moved \in Int /\ Moved' = Moved + Moves(e)
  BY <1>2, <1>3, <1>4, <1>5, TotalAppend, TotalType
<1>7. ASSUME NEW ref
      PROVE  Posted(ref)' = IF e.ref = ref THEN Posted(ref) \cup {n + 1} ELSE Posted(ref)
  BY <1>1 DEF Posted
<1> QED BY <1>6, <1>7

LEMMA RequestsInitInv == RequestsInit => RequestsInv
<1> SUFFICES ASSUME RequestsInit PROVE RequestsInv
  OBVIOUS
<1>1. balance = 0 /\ locked = 0 /\ ledger = <<>> /\ Len(ledger) = 0
  BY DEF RequestsInit, WalletInit
<1>2. WalletTypeOK
  BY <1>1, EmptySeq DEF WalletTypeOK
<1>3. RequestsTypeOK
  BY DEF RequestsInit, RequestsTypeOK, RequestStatus
<1>4. AllMoved
  BY <1>1, TotalEmpty DEF AllMoved, Moved
<1>5. StatementReconciles
  BY <1>1, TotalEmpty DEF StatementReconciles, Statement, Opening
<1> QED BY <1>2, <1>3, <1>4, <1>5 DEF RequestsInv

LEMMA UnchangedWallet ==
    ASSUME UNCHANGED walletVars
    PROVE  /\ StatementReconciles => StatementReconciles'
           /\ Moved' = Moved
           /\ \A ref : Posted(ref)' = Posted(ref)
<1>1. balance' = balance /\ ledger' = ledger
  BY DEF walletVars
<1>2. \A k : Statement(k)' = Statement(k) /\ Opening(k)' = Opening(k)
  BY <1>1 DEF Statement, Opening, Total, NetEffect, PnlTypes, DepositTypes, AbsAmount
<1>3. StatementReconciles => StatementReconciles'
  BY <1>1, <1>2 DEF StatementReconciles
<1>4. Moved' = Moved
  BY <1>1 DEF Moved, Total
<1>5. \A ref : Posted(ref)' = Posted(ref)
  BY <1>1 DEF Posted
<1> QED BY <1>3, <1>4, <1>5

\* A step of the requests, as the two invariants and the abstract specification
\* see it.
LEMMA RequestsStep ==
    ASSUME RequestsInv, [RequestsNext]_requestVars
    PROVE  /\ RequestsInv'
           /\ \/ Moved' = Moved /\ \A r \in Requests : Posted(r)' = Posted(r)
              \/ \E r \in Requests :
                    /\ Posted(r) = {} /\ Posted(r)' = {Len(ledger) + 1}
                    /\ Moved' = Moved + Amount[r] /\ Moved + Amount[r] >= 0
                    /\ \A q \in Requests \ {r} : Posted(q)' = Posted(q)
<1>1. /\ WalletTypeOK' /\ RequestsTypeOK'
      /\ UNCHANGED walletVars \/ MarginMoves \/ \E r \in Requests : FirstEntry(r)
  BY RequestsStepWallet DEF RequestsInv
<1>2. CASE UNCHANGED walletVars
  BY <1>1, <1>2, UnchangedWallet DEF RequestsInv, AllMoved, walletVars
<1>3. CASE MarginMoves
  <2>1. PICK e \in Rows : Posting(e) /\ e.ref = "position"
    BY <1>3 DEF MarginMoves
  <2>2. Moved' = Moved /\ \A r \in Requests : Posted(r)' = Posted(r)
    BY <2>1, PostingMoves, LedgerRequestsAssumption DEF RequestsInv, Moves
  <2>3. StatementReconciles'
    BY <1>1, <2>1, PostingReconciles DEF RequestsInv
  <2>4. AllMoved'
    BY <1>3, <2>2 DEF MarginMoves, RequestsInv, AllMoved
  <2> QED BY <1>1, <2>2, <2>3, <2>4 DEF RequestsInv
<1>4. ASSUME NEW r \in Requests, FirstEntry(r)
      PROVE  /\ RequestsInv'
             /\ Posted(r) = {} /\ Posted(r)' = {Len(ledger) + 1}
             /\ Moved' = Moved + Amount[r] /\ Moved + Amount[r] >= 0
             /\ \A q \in Requests \ {r} : Posted(q)' = Posted(q)
  <2>1. PICK e \in Rows : Posting(e) /\ e.ref = r /\ e.amount = Amount[r]
    BY <1>4 DEF FirstEntry
  <2>2. Moved \in Int /\ Moved' = Moved + Amount[r]
    BY <2>1, PostingMoves DEF RequestsInv, Moves
  <2>3. /\ Posted(r) = {} /\ Posted(r)' = {Len(ledger) + 1}
        /\ \A q \in Requests \ {r} : Posted(q)' = Posted(q)
    BY <1>4, <2>1, PostingMoves DEF RequestsInv, FirstEntry
  <2>4. AllMoved' /\ Moved + Amount[r] >= 0
    BY <1>1, <1>4, <2>2 DEF FirstEntry, RequestsInv, AllMoved, WalletTypeOK
  <2>5. StatementReconciles'
    BY <1>1, <2>1, PostingReconciles DEF RequestsInv
  <2> QED BY <1>1, <2>2, <2>3, <2>4, <2>5 DEF RequestsInv
<1> QED BY <1>1, <1>2, <1>3, <1>4

\* An account statement adds up whatever administrators approve and reject, and
\* whatever margin is locked and released, in the period.
THEOREM RequestStatementsReconcile == RequestsSpec => []StatementReconciles
<1>1. RequestsInv /\ [RequestsNext]_requestVars => RequestsInv'
  BY RequestsStep
<1>2. RequestsInv => StatementReconciles
  BY DEF RequestsInv
<1> QED BY <1>1, <1>2, RequestsInitInv, PTL DEF RequestsSpec

\* The review of requests implements its abstract specification: a request moves
\* its amount once at most, and no more is paid out than was paid in, however
\* many administrators approve and reject it at once.
THEOREM RequestsRefine == RequestsSpec => RequestsPayOnce
<1> DEFINE paid == [r \in Requests |-> Cardinality(Posted(r))]
<1>1. RequestsInv /\ [RequestsNext]_requestVars => RequestsInv'
  BY RequestsStep
<1>2. RequestsInit => Abstract!PayoutsInit
  <2> SUFFICES ASSUME RequestsInit PROVE Abstract!PayoutsInit
    OBVIOUS
  <2>1. Moved = 0
    BY TotalEmpty DEF RequestsInit, WalletInit, Moved
  <2>2. \A r \in Requests : Posted(r) = {}
    BY DEF RequestsInit, WalletInit, Posted
  <2> QED BY <2>1, <2>2, FS_EmptySet DEF Abstract!PayoutsInit
<1>3. RequestsInv /\ [RequestsNext]_requestVars => [Abstract!PayoutsNext]_<<Moved, paid>>
  <2> SUFFICES ASSUME RequestsInv, [RequestsNext]_requestVars
               PROVE  [Abstract!PayoutsNext]_<<Moved, paid>>
    OBVIOUS
  <2>1. CASE Moved' = Moved /\ \A r \in Requests : Posted(r)' = Posted(r)
    BY <2>1
  <2>2. ASSUME NEW r \in Requests,
               /\ Posted(r) = {} /\ Posted(r)' = {Len(ledger) + 1}
               /\ Moved' = Moved + Amount[r] /\ Moved + Amount[r] >= 0
               /\ \A q \in Requests \ {r} : Posted(q)' = Posted(q)
        PROVE  Abstract!Payout(r)
    <3>1. Cardinality(Posted(r)) = 0 /\ Cardinality(Posted(r)') = 1
      BY <2>2, FS_EmptySet, FS_Singleton
    <3>2. paid' = [paid EXCEPT ![r] = 1]
      BY <2>2, <3>1
    <3> QED BY <2>2, <3>1, <3>2 DEF Abstract!Payout
  <2> QED BY <2>1, <2>2, RequestsStep DEF Abstract!PayoutsNext
<1> QED
  BY <1>1, <1>2, <1>3, RequestsInitInv, PTL
  DEF RequestsSpec, RequestsPayOnce, Abstract!PayoutsSpec
---------------------------------------------------------------------------
(* The deposits.                                                           *)

Kinds == {"CONFIRMED", "FAILED"}

PspTypeOK ==
    /\ status \in [Deposits -> Statuses]
    /\ initiator \in [Deposits -> {"idle", "created", "session", "redirected", "gone"}]
    /\ psp \in [Deposits -> {"none", "open", "declined", "paid", "reversed"}]
    /\ events \subseteq Deposits \X Kinds
    /\ handler \in [Handlers -> {Idle} \cup [pc : {"read", "confirmed", "credited"},
                                             dep : Deposits, kind : Kinds, seen : Statuses]]
    /\ commission \in [Deposits -> {"NONE", "PENDING", "PAID"}]
    /\ overlapped \subseteq Deposits

On(h, d) == Busy(h) /\ handler[h].dep = d

\* Payments, webhooks, requests and credits come after the client was sent to the
\* provider.
Redirected ==
    /\ \A d \in Deposits : psp[d] = "paid" => initiator[d] = "redirected"
    /\ \A e \in events : initiator[e[1]] = "redirected"
    /\ \A h \in Handlers : Busy(h) => initiator[handler[h].dep] = "redirected"
    /\ \A d \in Deposits : Posted(d) # {} => initiator[d] = "redirected"

\* In turn: one request at a time works on the deposit, and what it read of the
\* status is so until it writes.
InTurn ==
    \A d \in Deposits \ overlapped :
        /\ \A g, h \in Handlers : On(g, d) /\ On(h, d) => g = h
        /\ \A h \in Handlers : On(h, d) /\ handler[h].pc = "read" => handler[h].seen = status[d]
        /\ Posted(d) # {} => status[d] = "CREDITED" /\ Cardinality(Posted(d)) = 1

\* A commission is owed on a credited deposit.
Earned ==
    /\ \A d \in Deposits : commission[d] # "NONE" => Posted(d) # {}
    /\ \A h \in Handlers, d \in Deposits :
           On(h, d) /\ handler[h].pc = "credited" => Posted(d) # {}

PspInv ==
    /\ WalletTypeOK
    /\ StatementReconciles
    /\ PspTypeOK
    /\ Redirected
    /\ InTurn
    /\ Earned

LEMMA BusyHandler ==
    ASSUME PspTypeOK, NEW h \in Handlers, Busy(h)
    PROVE  /\ handler[h].pc \in {"read", "confirmed", "credited"}
           /\ handler[h].dep \in Deposits /\ handler[h].kind \in Kinds
           /\ handler[h].seen \in Statuses
<1>1. handler[h] # Idle
  BY DEF Busy, Idle
<1> QED BY <1>1 DEF PspTypeOK

LEMMA SameWallet ==
    ASSUME PspInv, UNCHANGED walletVars
    PROVE  WalletTypeOK' /\ StatementReconciles' /\ \A ref : Posted(ref)' = Posted(ref)
  BY UnchangedWallet DEF PspInv, WalletTypeOK, walletVars

\* A step outside the handlers: it may write the status of a deposit whose client
\* has not been redirected, and send a webhook for one who has.
LEMMA OutsideStep ==
    ASSUME PspInv, NEW d \in Deposits,
           UNCHANGED <<walletVars, handler, overlapped, commission>>,
           initiator' \in [Deposits -> {"idle", "created", "session", "redirected", "gone"}],
           status' \in [Deposits -> Statuses],
           psp' \in [Deposits -> {"none", "open", "declined", "paid", "reversed"}],
           events' \subseteq Deposits \X Kinds,
           \A c \in Deposits : c # d => /\ initiator'[c] = initiator[c]
                                        /\ status'[c] = status[c] /\ psp'[c] = psp[c],
           psp'[d] = "paid" => initiator'[d] = "redirected",
           \/ initiator[d] # "redirected" /\ events' = events
           \/ /\ initiator[d] = "redirected" /\ initiator'[d] = "redirected"
              /\ status' = status
              /\ \A e \in events' : e \in events \/ e[1] = d
    PROVE  PspInv'
<1>1. WalletTypeOK' /\ StatementReconciles' /\ \A ref : Posted(ref)' = Posted(ref)
  BY SameWallet
<1>2. PspTypeOK'
  BY DEF PspInv, PspTypeOK
<1>3. \A h \in Handlers : Busy(h)' = Busy(h) /\ \A c : On(h, c)' = On(h, c)
  BY DEF Busy, On
<1>4. \A c \in Deposits : initiator[c] = "redirected"
          => initiator'[c] = "redirected" /\ status'[c] = status[c]
  OBVIOUS
<1>5. \A h \in Handlers : Busy(h) => handler[h].dep \in Deposits
  BY BusyHandler DEF PspInv
<1>6. Redirected'
  <2>1. \A e \in events' : initiator'[e[1]] = "redirected"
    <3> SUFFICES ASSUME NEW e \in events' PROVE initiator'[e[1]] = "redirected"
      OBVIOUS
    <3>1. e[1] \in Deposits
      OBVIOUS
    <3>2. CASE e \in events
      BY <1>4, <3>1, <3>2 DEF PspInv, Redirected
    <3>3. CASE e \notin events
      BY <3>3
    <3> QED BY <3>2, <3>3
  <2>2. \A h \in Handlers : Busy(h)' => initiator'[handler[h].dep] = "redirected"
    BY <1>3, <1>4, <1>5 DEF PspInv, Redirected
  <2>3. \A c \in Deposits : Posted(c)' # {} => initiator'[c] = "redirected"
    BY <1>1, <1>4 DEF PspInv, Redirected
  <2>4. \A c \in Deposits : psp'[c] = "paid" => initiator'[c] = "redirected"
    BY DEF PspInv, Redirected
  <2> QED BY <2>1, <2>2, <2>3, <2>4 DEF Redirected
<1>7. InTurn'
  <2> SUFFICES ASSUME NEW c \in Deposits \ overlapped
               PROVE  /\ \A g, h \in Handlers : On(g, c)' /\ On(h, c)' => g = h
                      /\ \A h \in Handlers : On(h, c)' /\ handler'[h].pc = "read"
                             => handler'[h].seen = status'[c]
                      /\ Posted(c)' # {} => status'[c] = "CREDITED" /\ Cardinality(Posted(c)') = 1
    BY DEF InTurn
  <2>1. \A h \in Handlers : On(h, c) => status'[c] = status[c]
    BY <1>4, <1>5 DEF PspInv, Redirected, On
  <2>2. Posted(c) # {} => status'[c] = status[c]
    BY <1>4 DEF PspInv, Redirected
  <2> QED BY <1>1, <1>3, <2>1, <2>2 DEF PspInv, InTurn
<1>8. Earned'
  BY <1>1, <1>3 DEF PspInv, Earned
<1> QED BY <1>1, <1>2, <1>6, <1>7, <1>8 DEF PspInv

\* A request of the handlers that goes on or ends without a credit; a status it
\* writes is that of its deposit, which was not credited if it had its turn.
LEMMA HandlerStepKeeps ==
    ASSUME PspInv, NEW h \in Handlers, Busy(h),
           UNCHANGED <<walletVars, initiator, psp, overlapped>>,
           events' \subseteq events,
           commission' \in [Deposits -> {"NONE", "PENDING", "PAID"}],
           \A c \in Deposits : commission'[c] # "NONE"
               => commission[c] # "NONE" \/ (c = handler[h].dep /\ handler[h].pc = "credited"),
           status' \in [Deposits -> Statuses],
           \A c \in Deposits : status'[c] # status[c]
               => c = handler[h].dep /\ (c \notin overlapped => Posted(c) = {}),
           \/ handler' = [handler EXCEPT ![h] = Idle]
           \/ handler' = [handler EXCEPT ![h].pc = "confirmed"]
    PROVE  PspInv'
<1> DEFINE d == handler[h].dep
<1>1. WalletTypeOK' /\ StatementReconciles' /\ \A ref : Posted(ref)' = Posted(ref)
  BY SameWallet
<1>2. d \in Deposits /\ handler[h].kind \in Kinds /\ handler[h].seen \in Statuses
      /\ handler[h] \in [pc : {"read", "confirmed", "credited"},
                         dep : Deposits, kind : Kinds, seen : Statuses]
  <2>1. handler[h] # Idle
    BY DEF Busy, Idle
  <2> QED BY <2>1 DEF PspInv, PspTypeOK
<1>3. \A g \in Handlers : g # h => handler'[g] = handler[g]
  BY DEF PspInv, PspTypeOK
<1>4. \/ handler'[h] = Idle
      \/ handler'[h].pc = "confirmed" /\ handler'[h].dep = d
  BY <1>2 DEF PspInv, PspTypeOK
<1>5. PspTypeOK'
  <2>1. handler' \in [Handlers -> {Idle} \cup [pc : {"read", "confirmed", "credited"},
                                             dep : Deposits, kind : Kinds, seen : Statuses]]
    <3>1. CASE handler' = [handler EXCEPT ![h] = Idle]
      <4> HIDE DEF Idle
      <4> QED BY <3>1 DEF PspInv, PspTypeOK
    <3>2. CASE handler' = [handler EXCEPT ![h].pc = "confirmed"]
      <4>1. handler' = [handler EXCEPT ![h] = [handler[h] EXCEPT !.pc = "confirmed"]]
        BY <3>2
      <4>2. [handler[h] EXCEPT !.pc = "confirmed"]
               \in [pc : {"read", "confirmed", "credited"},
                   dep : Deposits, kind : Kinds, seen : Statuses]
        BY <1>2
      <4> QED BY <4>1, <4>2 DEF PspInv, PspTypeOK
    <3> QED BY <3>1, <3>2
  <2> QED BY <2>1 DEF PspInv, PspTypeOK
<1>6. \A g \in Handlers : \A c : On(g, c)' => On(g, c)
  BY <1>3, <1>4 DEF On, Busy, Idle
<1>7. \A g \in Handlers : \A c : On(g, c)' /\ g # h => handler'[g] = handler[g]
  BY <1>3
<1>8. Redirected'
  BY <1>1, <1>6 DEF PspInv, Redirected, On
<1>9. InTurn'
  <2> SUFFICES ASSUME NEW c \in Deposits \ overlapped
               PROVE  /\ \A f, g \in Handlers : On(f, c)' /\ On(g, c)' => f = g
                      /\ \A g \in Handlers : On(g, c)' /\ handler'[g].pc = "read"
                             => handler'[g].seen = status'[c]
                      /\ Posted(c)' # {} => status'[c] = "CREDITED" /\ Cardinality(Posted(c)') = 1
    BY DEF InTurn
  <2>1. \A f, g \in Handlers : On(f, c)' /\ On(g, c)' => f = g
    BY <1>6 DEF PspInv, InTurn
  <2>2. ASSUME NEW g \in Handlers, On(g, c)', handler'[g].pc = "read"
        PROVE  handler'[g].seen = status'[c]
    <3>1. g # h
      BY <1>4, <2>2 DEF Idle
    <3>2. On(g, c) /\ handler'[g] = handler[g]
      BY <1>3, <1>6, <2>2, <3>1
    <3>3. c # d
      BY <3>1, <3>2 DEF PspInv, InTurn, On
    <3> QED BY <2>2, <3>2, <3>3 DEF PspInv, InTurn
  <2>3. Posted(c)' # {} => status'[c] = "CREDITED" /\ Cardinality(Posted(c)') = 1
    BY <1>1 DEF PspInv, InTurn
  <2> QED BY <2>1, <2>2, <2>3
<1>10. Earned'
  <2>1. \A c \in Deposits : commission'[c] # "NONE" => Posted(c)' # {}
    BY <1>1, <1>2 DEF PspInv, Earned, On
  <2>2. ASSUME NEW g \in Handlers, NEW c \in Deposits, On(g, c)', handler'[g].pc = "credited"
        PROVE  Posted(c)' # {}
    <3>1. g # h
      BY <1>4, <2>2 DEF Idle
    <3>2. On(g, c) /\ handler'[g] = handler[g]
      BY <1>3, <1>6, <2>2, <3>1
    <3> QED BY <1>1, <2>2, <3>2 DEF PspInv, Earned
  <2> QED BY <2>1, <2>2 DEF Earned
<1> QED BY <1>1, <1>5, <1>8, <1>9, <1>10 DEF PspInv

LEMMA CreditKeeps ==
    ASSUME PspInv, NEW h \in Handlers, CreditDeposit(h)
    PROVE  PspInv'
<1> USE PspAssumption
<1>0. PICK d : d = handler[h].dep
  OBVIOUS
<1> DEFINE e == Row("DEPOSIT_CREDIT", d, DepositAmount, balance + DepositAmount)
<1>1. /\ handler[h].pc = "confirmed" /\ status[d] = "CONFIRMED"
      /\ Credit("DEPOSIT_CREDIT", d, DepositAmount)
      /\ status' = [status EXCEPT ![d] = "CREDITED"]
      /\ handler' = [handler EXCEPT ![h].pc = "credited"]
      /\ UNCHANGED <<initiator, psp, events, overlapped, commission>>
  BY <1>0 DEF CreditDeposit, Creditable, affiliateVars
<1>2. Busy(h) /\ d \in Deposits
      /\ handler[h] \in [pc : {"read", "confirmed", "credited"},
                         dep : Deposits, kind : Kinds, seen : Statuses]
  <2>1. Busy(h) /\ handler[h] # Idle
    BY <1>1 DEF Busy, Idle
  <2> QED BY <1>0, <2>1 DEF PspInv, PspTypeOK
<1>3. WalletTypeOK' /\ Posting(e)
  BY <1>1, <1>2, CreditPosts DEF PspInv, DepositTypes
<1>4. e \in Rows /\ e.ref = d
  BY <1>3 DEF Posting, Row
<1> HIDE DEF e
<1>5. StatementReconciles'
  BY <1>3, <1>4, PostingReconciles DEF PspInv
<1>6. /\ Posted(d)' = Posted(d) \cup {Len(ledger) + 1}
      /\ \A c \in Deposits : c # d => Posted(c)' = Posted(c)
  BY <1>3, <1>4, PostingMoves DEF PspInv
<1>7. \A g \in Handlers : g # h => handler'[g] = handler[g]
  BY <1>1 DEF PspInv, PspTypeOK
<1>8. handler'[h].pc = "credited" /\ handler'[h].dep = d
  BY <1>0, <1>1, <1>2 DEF PspInv, PspTypeOK
<1>9. PspTypeOK'
  <2>1. handler' = [handler EXCEPT ![h] = [handler[h] EXCEPT !.pc = "credited"]]
    BY <1>1
  <2>2. [handler[h] EXCEPT !.pc = "credited"]
           \in [pc : {"read", "confirmed", "credited"},
               dep : Deposits, kind : Kinds, seen : Statuses]
    BY <1>2
  <2>3. handler' \in [Handlers -> {Idle} \cup [pc : {"read", "confirmed", "credited"},
                                             dep : Deposits, kind : Kinds, seen : Statuses]]
    BY <2>1, <2>2 DEF PspInv, PspTypeOK
  <2> QED BY <1>1, <2>3 DEF PspInv, PspTypeOK, Statuses
<1>10. \A g \in Handlers : \A c : On(g, c)' = On(g, c)
  BY <1>0, <1>2, <1>7, <1>8 DEF On, Busy
<1>11. Redirected'
  <2>1. \A g \in Handlers : Busy(g)' => initiator'[handler'[g].dep] = "redirected"
    BY <1>0, <1>1, <1>2, <1>7, <1>8 DEF PspInv, Redirected, Busy
  <2>2. \A c \in Deposits : Posted(c)' # {} => initiator'[c] = "redirected"
    BY <1>0, <1>1, <1>2, <1>6 DEF PspInv, Redirected
  <2> QED BY <1>1, <2>1, <2>2 DEF PspInv, Redirected
<1>12. InTurn'
  <2> SUFFICES ASSUME NEW c \in Deposits \ overlapped
               PROVE  /\ \A f, g \in Handlers : On(f, c)' /\ On(g, c)' => f = g
                      /\ \A g \in Handlers : On(g, c)' /\ handler'[g].pc = "read"
                             => handler'[g].seen = status'[c]
                      /\ Posted(c)' # {} => status'[c] = "CREDITED" /\ Cardinality(Posted(c)') = 1
    BY <1>1 DEF InTurn
  <2>1. \A f, g \in Handlers : On(f, c)' /\ On(g, c)' => f = g
    BY <1>10 DEF PspInv, InTurn
  <2>2. CASE c = d
    <3>1. Posted(c) = {}
      BY <1>1, <2>2 DEF PspInv, InTurn
    <3>2. Posted(c)' = {Len(ledger) + 1}
      BY <1>6, <2>2, <3>1
    <3>3. status'[c] = "CREDITED" /\ Cardinality(Posted(c)') = 1
      BY <1>1, <2>2, <3>2, FS_Singleton DEF PspInv, PspTypeOK
    <3>4. \A g \in Handlers : On(g, c)' => g = h
      BY <1>0, <1>2, <1>10, <2>1, <2>2 DEF On
    <3> QED BY <1>8, <2>1, <3>3, <3>4
  <2>3. CASE c # d
    <3>1. status'[c] = status[c] /\ Posted(c)' = Posted(c)
      BY <1>1, <1>6, <2>3 DEF PspInv, PspTypeOK
    <3>2. \A g \in Handlers : On(g, c) => g # h
      BY <1>0, <2>3 DEF On
    <3> QED BY <1>7, <1>10, <2>1, <3>1, <3>2 DEF PspInv, InTurn
  <2> QED BY <2>2, <2>3
<1>13. Earned'
  <2>1. \A c \in Deposits : Posted(c) # {} => Posted(c)' # {}
    BY <1>6
  <2>2. Posted(d)' # {}
    BY <1>6
  <2>3. \A c \in Deposits : On(h, c)' => c = d
    BY <1>8 DEF On
  <2> QED BY <1>1, <1>7, <1>10, <2>1, <2>2, <2>3 DEF PspInv, Earned
<1> QED BY <1>3, <1>5, <1>9, <1>11, <1>12, <1>13 DEF PspInv

LEMMA DeliverKeeps ==
    ASSUME PspInv, NEW h \in Handlers, NEW d \in Deposits, NEW kind \in Kinds,
           Deliver(h, d, kind)
    PROVE  PspInv'
<1> DEFINE r == [pc |-> "read", dep |-> d, kind |-> kind, seen |-> status[d]]
<1>1. /\ ~Busy(h) /\ <<d, kind>> \in events
      /\ handler' = [handler EXCEPT ![h] = r]
      /\ overlapped' = IF \E g \in Handlers : Busy(g) /\ handler[g].dep = d
                       THEN overlapped \cup {d} ELSE overlapped
      /\ UNCHANGED <<walletVars, initiator, psp, events, status, commission>>
  BY DEF Deliver, affiliateVars
<1>2. WalletTypeOK' /\ StatementReconciles' /\ \A ref : Posted(ref)' = Posted(ref)
  BY <1>1, SameWallet
<1>3. \A g \in Handlers : g # h => handler'[g] = handler[g]
  BY <1>1 DEF PspInv, PspTypeOK
<1>4. handler'[h] = r
  BY <1>1 DEF PspInv, PspTypeOK
<1>5. r \in [pc : {"read", "confirmed", "credited"}, dep : Deposits, kind : Kinds, seen : Statuses]
  BY DEF PspInv, PspTypeOK
<1>6. PspTypeOK'
  <2>1. handler' \in [Handlers -> {Idle} \cup [pc : {"read", "confirmed", "credited"},
                                             dep : Deposits, kind : Kinds, seen : Statuses]]
    <3> HIDE DEF r
    <3> QED BY <1>1, <1>5 DEF PspInv, PspTypeOK
  <2> QED BY <1>1, <2>1 DEF PspInv, PspTypeOK
<1>7. initiator[d] = "redirected"
  BY <1>1 DEF PspInv, Redirected
<1>8. Redirected'
  <2>1. \A g \in Handlers : Busy(g)' => initiator'[handler'[g].dep] = "redirected"
    BY <1>1, <1>3, <1>4, <1>7 DEF PspInv, Redirected, Busy
  <2> QED BY <1>1, <1>2, <2>1 DEF PspInv, Redirected
<1>9. InTurn'
  <2> SUFFICES ASSUME NEW c \in Deposits \ overlapped'
               PROVE  /\ \A f, g \in Handlers : On(f, c)' /\ On(g, c)' => f = g
                      /\ \A g \in Handlers : On(g, c)' /\ handler'[g].pc = "read"
                             => handler'[g].seen = status'[c]
                      /\ Posted(c)' # {} => status'[c] = "CREDITED" /\ Cardinality(Posted(c)') = 1
    BY DEF InTurn
  <2>1. c \notin overlapped
    BY <1>1
  <2>2. \A g \in Handlers : g # h => On(g, c)' = On(g, c)
    BY <1>3 DEF On, Busy
  <2>3. On(h, c)' => c = d
    BY <1>4 DEF On
  <2>4. c = d => \A g \in Handlers : ~On(g, c)
    BY <1>1 DEF On
  <2>5. \A f, g \in Handlers : On(f, c)' /\ On(g, c)' => f = g
    BY <2>1, <2>2, <2>3, <2>4 DEF PspInv, InTurn
  <2>6. \A g \in Handlers : On(g, c)' /\ handler'[g].pc = "read" => handler'[g].seen = status'[c]
    BY <1>1, <1>3, <1>4, <2>1, <2>2, <2>3 DEF PspInv, InTurn
  <2>7. Posted(c)' # {} => status'[c] = "CREDITED" /\ Cardinality(Posted(c)') = 1
    BY <1>1, <1>2, <2>1 DEF PspInv, InTurn
  <2> QED BY <2>5, <2>6, <2>7
<1>10. Earned'
  <2>1. \A g \in Handlers : handler'[g].pc = "credited" => g # h /\ handler'[g] = handler[g]
    BY <1>3, <1>4
  <2> QED BY <1>1, <1>2, <2>1 DEF PspInv, Earned, On, Busy
<1> QED BY <1>2, <1>6, <1>8, <1>9, <1>10 DEF PspInv

LEMMA DepositsInitInv == DepositsInit => PspInv
<1> SUFFICES ASSUME DepositsInit PROVE PspInv
  OBVIOUS
<1>1. balance = 0 /\ locked = 0 /\ ledger = <<>> /\ Len(ledger) = 0
  BY DEF DepositsInit, WalletInit
<1>2. WalletTypeOK
  BY <1>1, EmptySeq DEF WalletTypeOK
<1>3. StatementReconciles
  BY <1>1, TotalEmpty DEF StatementReconciles, Statement, Opening
<1>4. PspTypeOK
  BY DEF DepositsInit, AffiliatesInit, PspTypeOK, Statuses
<1>5. /\ events = {} /\ \A h \in Handlers : ~Busy(h)
      /\ \A d \in Deposits : Posted(d) = {} /\ commission[d] = "NONE"
  BY <1>1 DEF DepositsInit, AffiliatesInit, Busy, Idle, Posted
<1>6. Redirected
  BY <1>5 DEF Redirected, DepositsInit
<1>7. InTurn
  BY <1>5 DEF InTurn, On
<1>8. Earned
  BY <1>5 DEF Earned, On
<1> QED BY <1>2, <1>3, <1>4, <1>6, <1>7, <1>8 DEF PspInv

LEMMA DepositsNextInv == PspInv /\ [DepositsNext]_depositVars => PspInv'
<1> SUFFICES ASSUME PspInv, [DepositsNext]_depositVars PROVE PspInv'
  OBVIOUS
<1> USE DEF affiliateVars
<1>1. ASSUME NEW d \in Deposits,
             Request(d) \/ OpenSession(d) \/ SessionRefused(d) \/ ToPending(d)
      PROVE  PspInv'
  <2>1. /\ initiator[d] # "redirected"
        /\ UNCHANGED <<walletVars, handler, overlapped, commission, events>>
    BY <1>1 DEF Request, OpenSession, SessionRefused, ToPending
  <2>2. /\ initiator' \in [Deposits -> {"idle", "created", "session", "redirected", "gone"}]
        /\ \A c \in Deposits : c # d => initiator'[c] = initiator[c]
    BY <1>1 DEF Request, OpenSession, SessionRefused, ToPending, PspInv, PspTypeOK
  <2>3. /\ status' \in [Deposits -> Statuses]
        /\ \A c \in Deposits : c # d => status'[c] = status[c]
    BY <1>1 DEF Request, OpenSession, SessionRefused, ToPending, PspInv, PspTypeOK, Statuses
  <2>4. /\ psp' \in [Deposits -> {"none", "open", "declined", "paid", "reversed"}]
        /\ \A c \in Deposits : c # d => psp'[c] = psp[c]
        /\ psp'[d] # "paid"
    BY <1>1 DEF Request, OpenSession, SessionRefused, ToPending, PspInv, PspTypeOK, Redirected
  <2> QED BY <2>1, <2>2, <2>3, <2>4, OutsideStep DEF PspInv, PspTypeOK
<1>2. ASSUME NEW d \in Deposits,
             (\E amount \in {"same", "missing", "other"} : Pay(d, amount)) \/ Decline(d)
      PROVE  PspInv'
  <2>1. UNCHANGED <<walletVars, handler, overlapped, commission, initiator, status>>
    BY <1>2 DEF Pay, Decline
  <2>2. PICK kind \in Kinds : events' = events \cup {<<d, kind>>}
    BY <1>2 DEF Pay, Decline, Kinds
  <2>3. initiator[d] = "redirected"
    BY <1>2 DEF Pay, Decline, PspInv, Redirected
  <2>4. /\ psp' \in [Deposits -> {"none", "open", "declined", "paid", "reversed"}]
        /\ \A c \in Deposits : c # d => psp'[c] = psp[c]
    BY <1>2 DEF Pay, Decline, PspInv, PspTypeOK
  <2>5. events' \subseteq Deposits \X Kinds
    BY <2>2 DEF PspInv, PspTypeOK
  <2> QED BY <2>1, <2>2, <2>3, <2>4, <2>5, OutsideStep DEF PspInv, PspTypeOK
<1>3. ASSUME NEW h \in Handlers, NEW d \in Deposits, NEW kind \in {"CONFIRMED", "FAILED"},
             Deliver(h, d, kind)
      PROVE  PspInv'
  BY <1>3, DeliverKeeps DEF Kinds
<1>4. ASSUME NEW h \in Handlers, Confirm(h) PROVE PspInv'
  <2>1. /\ Busy(h) /\ handler[h].pc = "read"
        /\ UNCHANGED <<walletVars, initiator, psp, overlapped, events, commission>>
        /\ handler' = [handler EXCEPT ![h].pc = "confirmed"]
    BY <1>4 DEF Confirm, Busy
  <2>2. handler[h].dep \in Deposits
    BY <2>1, BusyHandler DEF PspInv
  <2>3. CASE NeedsConfirm(handler[h].seen)
    <3>1. status' = [status EXCEPT ![handler[h].dep] = "CONFIRMED"]
      BY <1>4, <2>3 DEF Confirm
    <3>2. handler[h].dep \notin overlapped => Posted(handler[h].dep) = {}
      BY <2>1, <2>2, <2>3 DEF NeedsConfirm, PspInv, InTurn, On
    <3>3. status' \in [Deposits -> Statuses]
          /\ \A c \in Deposits : c # handler[h].dep => status'[c] = status[c]
      BY <3>1 DEF PspInv, PspTypeOK, Statuses
    <3> QED BY <2>1, <3>2, <3>3, HandlerStepKeeps DEF PspInv, PspTypeOK
  <2>4. CASE ~NeedsConfirm(handler[h].seen)
    <3>1. status' = status
      BY <1>4, <2>4 DEF Confirm
    <3> QED BY <2>1, <3>1, HandlerStepKeeps DEF PspInv, PspTypeOK
  <2> QED BY <2>3, <2>4
<1>5. ASSUME NEW h \in Handlers, CreditDeposit(h) PROVE PspInv'
  BY <1>5, CreditKeeps
<1>6. ASSUME NEW h \in Handlers, AlreadyCredited(h) \/ CreditRefused(h) \/ CrashHandler(h)
      PROVE  PspInv'
  <2>1. /\ Busy(h)
        /\ UNCHANGED <<walletVars, initiator, psp, overlapped, commission, status>>
        /\ handler' = [handler EXCEPT ![h] = Idle] /\ events' \subseteq events
    BY <1>6 DEF AlreadyCredited, CreditRefused, CrashHandler, Answer, Busy
  <2> QED BY <2>1, HandlerStepKeeps DEF PspInv, PspTypeOK
<1>7. ASSUME NEW h \in Handlers, Accrue(h) PROVE PspInv'
  <2>1. /\ Busy(h) /\ handler[h].pc = "credited"
        /\ UNCHANGED <<walletVars, initiator, psp, overlapped, status>>
        /\ handler' = [handler EXCEPT ![h] = Idle] /\ events' \subseteq events
    BY <1>7 DEF Accrue, Answer, Busy
  <2>2. commission' = commission
        \/ commission' = [commission EXCEPT ![handler[h].dep] = "PENDING"]
    BY <1>7 DEF Accrue, Accrued
  <2>3. /\ commission' \in [Deposits -> {"NONE", "PENDING", "PAID"}]
        /\ \A c \in Deposits : c # handler[h].dep => commission'[c] = commission[c]
    BY <2>2 DEF PspInv, PspTypeOK
  <2> QED BY <2>1, <2>3, HandlerStepKeeps DEF PspInv, PspTypeOK
<1>8. ASSUME NEW h \in Handlers, Fail(h) PROVE PspInv'
  <2>1. /\ Busy(h) /\ handler[h].pc = "read"
        /\ UNCHANGED <<walletVars, initiator, psp, overlapped, commission>>
        /\ handler' = [handler EXCEPT ![h] = Idle] /\ events' \subseteq events
    BY <1>8 DEF Fail, Answer, Busy
  <2>2. handler[h].dep \in Deposits
    BY <2>1, BusyHandler DEF PspInv
  <2>3. CASE NeedsFail(handler[h].seen)
    <3>1. status' = [status EXCEPT ![handler[h].dep] = "FAILED"]
      BY <1>8, <2>3 DEF Fail
    <3>2. handler[h].dep \notin overlapped => Posted(handler[h].dep) = {}
      BY <2>1, <2>2, <2>3 DEF NeedsFail, PspInv, InTurn, On
    <3>3. status' \in [Deposits -> Statuses]
          /\ \A c \in Deposits : c # handler[h].dep => status'[c] = status[c]
      BY <3>1 DEF PspInv, PspTypeOK, Statuses
    <3> QED BY <2>1, <3>2, <3>3, HandlerStepKeeps DEF PspInv, PspTypeOK
  <2>4. CASE ~NeedsFail(handler[h].seen)
    <3>1. status' = status
      BY <1>8, <2>4 DEF Fail
    <3> QED BY <2>1, <3>1, HandlerStepKeeps DEF PspInv, PspTypeOK
  <2> QED BY <2>3, <2>4
<1>9. CASE AffiliatesNext /\ UNCHANGED <<walletVars, pspVars>>
  <2>1. UNCHANGED <<walletVars, status, initiator, psp, events, handler, overlapped>>
    BY <1>9 DEF pspVars
  <2>2. /\ commission' \in [Deposits -> {"NONE", "PENDING", "PAID"}]
        /\ \A c \in Deposits : commission'[c] # "NONE" => commission[c] # "NONE"
    BY <1>9 DEF AffiliatesNext, CreatePartner, SetStatus, RecordReferral, MarkPaid, PspInv, PspTypeOK
  <2>3. WalletTypeOK' /\ StatementReconciles' /\ \A ref : Posted(ref)' = Posted(ref)
    BY <2>1, SameWallet
  <2>4. \A h \in Handlers : Busy(h)' = Busy(h) /\ \A c : On(h, c)' = On(h, c)
    BY <2>1 DEF Busy, On
  <2>5. PspTypeOK' /\ Redirected' /\ InTurn' /\ Earned'
    BY <2>1, <2>2, <2>3, <2>4 DEF PspInv, PspTypeOK, Redirected, InTurn, Earned
  <2> QED BY <2>3, <2>5 DEF PspInv
<1>10. CASE UNCHANGED depositVars
  <2>1. UNCHANGED <<walletVars, status, initiator, psp, events, handler, overlapped, commission>>
    BY <1>10 DEF depositVars, pspVars
  <2>2. WalletTypeOK' /\ StatementReconciles' /\ \A ref : Posted(ref)' = Posted(ref)
    BY <2>1, SameWallet
  <2>3. \A h \in Handlers : Busy(h)' = Busy(h) /\ \A c : On(h, c)' = On(h, c)
    BY <2>1 DEF Busy, On
  <2>4. PspTypeOK' /\ Redirected' /\ InTurn' /\ Earned'
    BY <2>1, <2>2, <2>3 DEF PspInv, PspTypeOK, Redirected, InTurn, Earned
  <2> QED BY <2>2, <2>4 DEF PspInv
<1> QED
  BY <1>1, <1>2, <1>3, <1>4, <1>5, <1>6, <1>7, <1>8, <1>9, <1>10 DEF DepositsNext, HandlerStep

LEMMA CreditsCounted == \A d \in Deposits : PspInv => (Credits(d) >= 1) = (Posted(d) # {})
<1> SUFFICES ASSUME NEW d \in Deposits, PspInv PROVE (Credits(d) >= 1) = (Posted(d) # {})
  OBVIOUS
<1>1. IsFiniteSet(Posted(d))
  <2>1. Posted(d) \subseteq 1 .. Len(ledger) /\ Len(ledger) \in Nat
    BY DEF Posted, PspInv, WalletTypeOK
  <2>2. 1 \in Int /\ Len(ledger) \in Int
    BY <2>1
  <2>3. IsFiniteSet(1 .. Len(ledger))
    BY <2>2, FS_Interval
  <2> QED BY <2>1, <2>3, FS_Subset
<1> QED BY <1>1, FS_EmptySet, FS_CardinalityType DEF Credits

\* As long as no two requests work on a deposit at the same moment it is credited
\* once at most, and a commission is only owed on a credited deposit, whatever
\* webhooks are delivered again, late or in contradiction, and whatever crashes.
THEOREM DepositsCreditedOnce == DepositsSpec => []CreditedOnceInTurn
<1>1. PspInv => CreditedOnceInTurn
  <2> SUFFICES ASSUME PspInv, NEW d \in Deposits
               PROVE  /\ d \notin overlapped => Credits(d) <= 1
                      /\ commission[d] # "NONE" => Credits(d) >= 1
    BY DEF CreditedOnceInTurn
  <2>1. commission[d] # "NONE" => Credits(d) >= 1
    BY CreditsCounted DEF PspInv, Earned
  <2>2. d \notin overlapped => Credits(d) <= 1
    <3>1. CASE Posted(d) = {}
      BY <3>1, FS_EmptySet DEF Credits
    <3>2. CASE Posted(d) # {}
      BY <3>2 DEF PspInv, InTurn, Credits
    <3> QED BY <3>1, <3>2
  <2> QED BY <2>1, <2>2
<1> QED BY <1>1, DepositsInitInv, DepositsNextInv, PTL DEF DepositsSpec

\* An account statement adds up over any sequence of provider deposits.
THEOREM DepositStatementsReconcile == DepositsSpec => []StatementReconciles
<1>1. PspInv => StatementReconciles
  BY DEF PspInv
<1> QED BY <1>1, DepositsInitInv, DepositsNextInv, PTL DEF DepositsSpec
=============================================================================
