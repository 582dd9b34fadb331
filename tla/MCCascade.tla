----------------------------- MODULE MCCascade -----------------------------
(***************************************************************************)
(* Small batches for the cascade: two orders, three settlement lines, two  *)
(* bank credits, two payment ids and two UTRs, combined every way; and a   *)
(* fourth line and a third credit beside a payment settled under two UTRs. *)
(***************************************************************************)
EXTENDS Cascade

MCOrders == {2, 5}
MCLines == {1, 4, 6}
MCBanks == {3, 7}
MCKeys == {1, 2}

\* Nets with two subsets of one sum (1 + 2 = 3), and with a refund (-1).
MCNets ==
    {[l \in MCLines |-> CASE l = 1 -> 1 [] l = 4 -> 2 [] l = 6 -> 3],
     [l \in MCLines |-> CASE l = 1 -> 2 [] l = 4 -> 2 [] l = 6 -> -1]}

\* Line 1 is too old for bank 7, whose window starts on day 9.
MCBatch(pids, utrs, butrs, nets, c3, c7, secondPid) ==
    [orderPid  |-> [o \in MCOrders |-> IF o = 2 THEN 1 ELSE secondPid],
     linePid   |-> pids,
     lineUtr   |-> utrs,
     bankUtr   |-> butrs,
     gross     |-> [e \in MCOrders \cup MCLines |->
                       IF e \in MCLines THEN nets[e] + 1 ELSE 4],
     net       |-> nets,
     credit    |-> [b \in MCBanks |-> IF b = 3 THEN c3 ELSE c7],
     settledOn |-> [l \in MCLines |-> IF l = 1 THEN 8 ELSE 10],
     valueDate |-> [b \in MCBanks |-> IF b = 3 THEN 10 ELSE 14],
     budget    |-> 20]

\* Line 1 and bank 3 never bear key 2, which would only rename key 1.
MCAllBatches ==
    {MCBatch(pids, utrs, butrs, nets, c3, c7, secondPid) :
        pids \in [MCLines -> {0, 1, 2}],
        utrs \in {f \in [MCLines -> {0, 1, 2}] : f[1] # 2},
        butrs \in {f \in [MCBanks -> {0, 1, 2}] : f[3] # 2},
        nets \in MCNets,
        c3 \in {1, 3}, c7 \in {2, 3}, secondPid \in {1, 2}}

\* Every payment has one line, in batches without line 9.
MCSingle(d) ==
    \A l, m \in MCLines : d.linePid[l] = d.linePid[m] /\ d.linePid[l] # NoKey => l = m

\* One payment line per payment id, or a payment settled in parts: then the
\* banks are those the UTRs name.
IsSplit(d) == ~ MCSingle(d) /\ d.bankUtr[3] = 1 /\ d.orderPid[5] = 2
MCSplitBatches == {d \in MCAllBatches : IsSplit(d)}

\* Nothing but sums to go by, and a search that ends before its seven
\* combinations of three lines.
MCCappedBatches ==
    {[d EXCEPT !.budget = 5] :
        d \in {c \in MCAllBatches :
                  MCSingle(c) /\ \A l \in MCLines : c.lineUtr[l] = NoKey}}

\* Line 9 and bank 8 beside the others; they are out of play unless both dates
\* are those of a batch.
MCLines4 == MCLines \cup {9}
MCBanks3 == MCBanks \cup {8}

MCWider(d, utr9, net9, day9, credit8, day8) ==
    [d EXCEPT
        !.linePid   = [l \in MCLines4 |-> IF l = 9 THEN NoKey ELSE @[l]],
        !.lineUtr   = [l \in MCLines4 |-> IF l = 9 THEN utr9 ELSE @[l]],
        !.bankUtr   = [b \in MCBanks3 |-> IF b = 8 THEN NoKey ELSE @[b]],
        !.gross     = [e \in MCOrders \cup MCLines4 |-> IF e = 9 THEN net9 + 1 ELSE @[e]],
        !.net       = [l \in MCLines4 |-> IF l = 9 THEN net9 ELSE @[l]],
        !.credit    = [b \in MCBanks3 |-> IF b = 8 THEN credit8 ELSE @[b]],
        !.settledOn = [l \in MCLines4 |-> IF l = 9 THEN day9 ELSE @[l]],
        !.valueDate = [b \in MCBanks3 |-> IF b = 8 THEN day8 ELSE @[b]]]

\* The group of the second payment is merged away under UTR 1, and filled again
\* under UTR 2; T3 then has line 9 left for what that group holds unlisted.
MCSpillBatches ==
    {MCWider(d, utr9, net9, 10, credit8, 10) :
        d \in {c \in MCAllBatches :
                  /\ c.orderPid[5] = 2 /\ c.credit[3] = 3
                  /\ c.linePid[1] = 1 /\ c.linePid[4] = 2 /\ c.linePid[6] = 2
                  /\ c.lineUtr[1] = 1 /\ c.lineUtr[4] = 1 /\ c.lineUtr[6] = 2
                  /\ c.bankUtr[3] = 1 /\ c.bankUtr[7] = 2},
        utr9 \in {0, 2}, net9 \in {-1, 3}, credit8 \in {-1, 3}}

\* Nothing but sums to go by, and line 9 on the last day of both windows: the
\* fourth candidate of bank 3, and alone the credit of a bank.
MCFourthBatches ==
    {MCWider(d, NoKey, net9, 10, 1, 30) :
        d \in {c \in MCAllBatches :
                  /\ MCSingle(c)
                  /\ \A l \in MCLines : c.lineUtr[l] = NoKey
                  /\ \A b \in MCBanks : c.bankUtr[b] = NoKey},
        net9 \in {-1, 3}}

MCBatches ==
    {MCWider(d, NoKey, 1, 0, 1, 30) :
        d \in {c \in MCAllBatches : MCSingle(c) \/ IsSplit(c)} \cup MCCappedBatches}
      \cup MCSpillBatches \cup MCFourthBatches

\* One line that nets as much as seven others together, which the size cap of 6
\* keeps out of the search.
MCNoOrders == {}
MCEightLines == 1..8
MCOneBank == {9}
MCOneKey == {1}

MCGuessBatches ==
    {[orderPid  |-> [o \in MCNoOrders |-> NoKey],
      linePid   |-> [l \in MCEightLines |-> NoKey],
      lineUtr   |-> [l \in MCEightLines |-> NoKey],
      bankUtr   |-> [b \in MCOneBank |-> NoKey],
      gross     |-> net,
      net       |-> net,
      credit    |-> [b \in MCOneBank |-> 7],
      settledOn |-> [l \in MCEightLines |-> 10],
      valueDate |-> [b \in MCOneBank |-> 12],
      budget    |-> 200000] :
        net \in {[l \in MCEightLines |-> IF l = 8 THEN 7 ELSE 1]}}

\* Three payments, one of them settled in two parts under UTRs 1 and 2, each
\* part beside a line of another payment.
MCOrders3 == MCOrders \cup {8}
MCKeys3 == {1, 2, 3}

MCChainBatches ==
    {[orderPid  |-> pidOf,
      linePid   |-> [l \in MCLines4 |-> CASE l \in {6, 9} -> 1 [] l = 1 -> 2 [] l = 4 -> 3],
      lineUtr   |-> [l \in MCLines4 |-> IF l \in {1, 6} THEN 1 ELSE 2],
      bankUtr   |-> [b \in MCBanks |-> IF b = 3 THEN 1 ELSE 2],
      gross     |-> [e \in MCOrders3 \cup MCLines4 |-> 3],
      net       |-> [l \in MCLines4 |-> 2],
      credit    |-> [b \in MCBanks |-> 4],
      settledOn |-> [l \in MCLines4 |-> 10],
      valueDate |-> [b \in MCBanks |-> 10],
      budget    |-> 20] :
        pidOf \in {f \in [MCOrders3 -> MCKeys3] : IsInjective(f)}}

=============================================================================
