----------------------------- MODULE ImChatProofs -----------------------------
(***************************************************************************)
(* Proofs about ImChat: no message is forgotten, the committed cursor never *)
(* passes a message that is not over, and when all is quiet everything is   *)
(* committed.                                                               *)
(***************************************************************************)
EXTENDS ImChat, DeliveryCursorProofs, WellFoundedInduction

-----------------------------------------------------------------------------
(* The inductive invariant: the shape of the state, and what is kept of each *)
(* message that is not over.                                                 *)

Up == runner \in {"busy", "idle", "reserved"}

\* Every position in use is a row of the chat; a receipt reaches to the last message
\* it covers; only the commands of a batch are replied to, before its prompt starts.
Shape ==
    /\ \A k \in Msgs : row[k] \in {"absent", "plain"}
    /\ {seen, pull, committed} \subseteq Visible \cup {0}
    /\ deferred \cup fresh \cup batch["loop"] \cup batch["run"] \subseteq Visible
    /\ \A r \in pending : r.covered \subseteq Visible /\ IsLast(r.cursor, r.covered)
    /\ \A who \in Readers : replies[who] \subseteq batch[who] \cap Commands
    /\ runner = "off" => batch["run"] = {}
    /\ Up => replies["run"] = {}
    /\ runner \in {"off", "expanding"} => outcome = "open"

Covered == UNION {r.covered : r \in pending}

\* Nothing that is ticked off, or passed by a tick, is not over.
Unticked(m) ==
    /\ committed < m
    /\ m \notin deferred
    /\ \A r \in acked : m \notin r.covered

\* What has been pulled is under a receipt.
Pulled(m) == m <= pull => \E r \in pending : m <= r.cursor

\* What has been seen is in somebody's hands (NoneForgotten).
Seen(m) ==
    m <= seen =>
        \/ m \in fresh \cup batch["loop"] \cup batch["run"]
        \/ \E r \in pending : m <= r.cursor
        \/ m > pull /\ (check \/ retry \/ resting)

\* No batch leaves it out, unless the runner has it already.
Whole(m) ==
    /\ \A c \in batch["run"] : m <= c => m \in batch["run"]
    /\ runner # "off" => \A c \in batch["loop"] :
           m <= c => m \in batch["loop"] \cup batch["run"] \cup Covered
    /\ \A r \in pending : m <= r.cursor => m \in batch["run"] \cup Covered

\* A command is answered before anything behind it is pulled, and behind a prompt
\* there is none.
Asked(m) ==
    /\ m \in Commands =>
         /\ pull < m
         /\ \A who \in Readers : \A c \in batch[who] : m <= c => m \in replies[who]
    /\ m \notin Commands => \A c \in Visible \cap Commands : c < m

\* Until its prompt is over a runner is at the turn of the prompt.
Prompted(m) ==
    Up /\ m \in ToSend => turns # <<>> /\ Head(turns) = {} /\ outcome = "open"

Minded(m) ==
    /\ Unticked(m) /\ Pulled(m) /\ Seen(m) /\ Whole(m) /\ Asked(m) /\ Prompted(m)

ImIInv ==
    /\ CursorIInv
    /\ Shape
    /\ \A m \in Waiting : Minded(m)

-----------------------------------------------------------------------------
(* What a commit passes *)

LEMMA MinimumExists ==
    ASSUME NEW S \in SUBSET Nat, S # {}
    PROVE  \E n \in S : \A k \in S : n <= k
  <1> DEFINE R == OpToRel(<, Nat)
  <1>1. IsWellFoundedOn(R, Nat)
    BY NatLessThanWellFounded
  <1> HIDE DEF R
  <1>2. PICK n \in S : \A k \in S : ~ (<<k, n>> \in R)
    BY <1>1, WFMin
  <1>3. ASSUME NEW k \in S PROVE n <= k
    <2>1. k \in Nat /\ n \in Nat /\ ~ (<<k, n>> \in R)
      BY <1>2
    <2> QED
      BY <2>1 DEF R, OpToRel
  <1> QED
    BY <1>3

\* A receipt before all others of a set.
LEMMA FirstReceipt ==
    ASSUME NEW R \in SUBSET Receipts, R # {}
    PROVE  \E r \in R : \A s \in R : ~ Precedes(s, r)
  <1> USE CursorAssumption DEF Receipts, Msgs
  <1>1. PICK c \in CursorsOf(R) : \A k \in CursorsOf(R) : c <= k
    <2>1. CursorsOf(R) \in SUBSET Nat /\ CursorsOf(R) # {}
      BY DEF CursorsOf
    <2> QED
      BY <2>1, MinimumExists
  <1> DEFINE Ids == {r.id : r \in {s \in R : s.cursor = c}}
  <1>2. PICK n \in Ids : \A k \in Ids : n <= k
    <2>1. Ids \in SUBSET Nat /\ Ids # {}
      BY DEF CursorsOf
    <2> HIDE DEF Ids
    <2> QED
      BY <2>1, MinimumExists
  <1>3. PICK r \in R : r.cursor = c /\ r.id = n
    OBVIOUS
  <1>4. ASSUME NEW s \in R, Precedes(s, r) PROVE FALSE
    <2>1. c <= s.cursor
      BY <1>1 DEF CursorsOf
    <2>2. s.cursor = c /\ s.id < n
      BY <1>3, <1>4, <2>1 DEF Precedes
    <2>3. s.id \in Ids /\ s.id \in Nat /\ n \in Nat
      BY <2>2
    <2> QED
      BY <1>2, <2>2, <2>3
  <1> QED
    BY <1>4

\* A flush passes no message that neither the ledger nor what is committed passes.
LEMMA FlushSkips ==
    ASSUME NEW X \in SUBSET Cursors, NEW ledger \in SUBSET Msgs,
           NEW m \in Visible', m \in Msgs, m \notin ledger, ~ Passed(m, X)
    PROVE  ~ Passed(m, Flushed(X, ledger))
  <1> SUFFICES ASSUME NEW x \in Flushed(X, ledger), m <= x PROVE FALSE
    BY DEF Passed
  <1>1. x \in ledger /\ (m < x => m \in ledger \/ Passed(m, X))
    BY DEF Flushed, Passed
  <1>2. m < x
    BY <1>1, CursorAssumption DEF Msgs
  <1> QED
    BY <1>1, <1>2

\* Receipts are committed in their order, and each looks at what lies before it: a
\* message that none of them covers is not passed.
LEMMA TakenSkips ==
    ASSUME pending \subseteq Receipts,
           NEW X \in SUBSET Cursors, NEW ledger \in SUBSET Msgs, NEW acks \in SUBSET pending,
           NEW m \in Visible', m \in Msgs, m \notin ledger, ~ Passed(m, X),
           \A r \in acks : m \notin r.covered
    PROVE  LET taken == Taken(X, ledger, acks)
           IN  /\ \A r \in taken : r.cursor < m
               /\ ~ Passed(m, Reached(X, ledger, taken))
  <1> DEFINE Before(r) == IF Below(r) = {} THEN X
                          ELSE Flushed(X \cup CursorsOf(Below(r)), ledger)
             taken == Taken(X, ledger, acks)
             Over == {r \in taken : m <= r.cursor}
  <1>1. \A r \in taken : r \in pending /\ \A s \in Below(r) \cup {r} :
            s \in acks /\ Eligible(s, Before(s))
    BY DEF Taken
  <1>t. \A r \in pending : (\A s \in Below(r) \cup {r} :
            s \in acks /\ Eligible(s, Before(s))) => r \in taken
    BY DEF Taken
  <1>2. \A r \in pending : r.cursor \in Nat /\ r.id \in Nat /\ r.cursor \in Cursors
    BY CursorAssumption DEF Receipts, Msgs, Cursors
  <1>m. m \in Nat /\ \A x \in X : x \in Nat
    BY CursorAssumption DEF Msgs, Cursors
  <1> HIDE DEF Before, taken
  <1>3. ASSUME NEW r \in Over, \A s \in Over : ~ Precedes(s, r)
        PROVE  FALSE
    <2>1. r \in taken /\ m <= r.cursor /\ r \in pending /\ r \in acks /\ Eligible(r, Before(r))
      BY <1>1
    <2>2. m \in r.covered \/ Passed(m, Before(r))
      BY <2>1 DEF Eligible
    <2>3. \A s \in Below(r) : s \in taken
      <3> SUFFICES ASSUME NEW s \in Below(r) PROVE s \in taken
        OBVIOUS
      <3>1. s \in pending /\ Precedes(s, r)
        BY DEF Below
      <3>2. \A u \in Below(s) : u \in Below(r)
        BY <1>2, <2>1, <3>1 DEF Below, Precedes
      <3>3. \A u \in Below(s) \cup {s} : u \in Below(r) \cup {r}
        BY <3>2
      <3> QED
        BY <1>1, <1>t, <2>1, <3>1, <3>3
    <2>4. \A s \in Below(r) : s.cursor < m
      <3> SUFFICES ASSUME NEW s \in Below(r), ~ s.cursor < m PROVE FALSE
        OBVIOUS
      <3>1. s \in pending /\ Precedes(s, r) /\ s \in taken
        BY <2>3 DEF Below
      <3>2. s \in Over
        BY <1>2, <1>m, <3>1
      <3> QED
        BY <1>3, <3>1, <3>2
    <2>5. CASE Below(r) = {}
      BY <2>1, <2>2, <2>5 DEF Before
    <2>6. CASE Below(r) # {}
      <3>1. ~ Passed(m, X \cup CursorsOf(Below(r)))
        BY <1>2, <1>m, <2>4 DEF Passed, CursorsOf, Below
      <3>2. X \cup CursorsOf(Below(r)) \in SUBSET Cursors
        BY <1>2 DEF CursorsOf, Below
      <3>3. ~ Passed(m, Before(r))
        BY <2>6, <3>1, <3>2, FlushSkips DEF Before
      <3> QED
        BY <2>1, <2>2, <3>3
    <2> QED
      BY <2>5, <2>6
  <1>4. Over = {}
    <2>1. Over \in SUBSET Receipts
      BY <1>1
    <2> QED
      BY <1>3, <2>1, FirstReceipt
  <1>5. \A r \in taken : r.cursor < m
    BY <1>1, <1>2, <1>4, <1>m
  <1>6. ~ Passed(m, Reached(X, ledger, taken))
    <2>1. CASE taken = {}
      BY <2>1 DEF Reached
    <2>2. CASE taken # {}
      <3>1. ~ Passed(m, X \cup CursorsOf(taken))
        BY <1>1, <1>2, <1>m, <1>5 DEF Passed, CursorsOf
      <3>2. X \cup CursorsOf(taken) \in SUBSET Cursors
        BY <1>1, <1>2 DEF CursorsOf
      <3> QED
        BY <2>2, <3>1, <3>2, FlushSkips DEF Reached
    <2> QED
      BY <2>1, <2>2
  <1> QED
    BY <1>5, <1>6 DEF taken

-----------------------------------------------------------------------------
(* What is kept of a message that is not over                                *)

\* A commit holds before it: it is not ticked off, no receipt that reaches it is
\* taken, and it is not pulled.
Held(m) ==
    /\ Unticked(m)'
    /\ pending' \subseteq pending
    /\ \A r \in pending : m <= r.cursor => r \in pending'
    /\ m <= pull' => m <= pull

LEMMA AdvanceHolds ==
    ASSUME CursorTypeOK, NEW X \in SUBSET Cursors, NEW pulled \in SUBSET Cursors,
           NEW ledger \in SUBSET Msgs, NEW m \in Msgs,
           committed < m, m \notin ledger, ~ Passed(m, X),
           m <= pull \/ \A p \in pulled : p < m,
           AdvanceCursors(X, pulled, ledger)
    PROVE  committed' < m /\ m \notin deferred' /\ (m <= pull' => m <= pull)
  <1>1. m \in Nat /\ \A c \in Cursors : c \in Nat
    BY CursorAssumption DEF Msgs, Cursors
  <1>2. pull \in Cursors /\ committed \in Cursors
    BY DEF CursorTypeOK
  <1>3. \A x \in X : x < m
    BY <1>1 DEF Passed
  <1>4. committed' < m /\ m \notin deferred'
    BY <1>1, <1>3 DEF AdvanceCursors, IsLast
  <1>5. m <= pull' => m <= pull
    BY <1>1, <1>2, <1>3 DEF AdvanceCursors, IsLast
  <1> QED
    BY <1>4, <1>5

LEMMA SettleHolds ==
    ASSUME CursorTypeOK, NEW X \in SUBSET Cursors, NEW pulled \in SUBSET Cursors,
           NEW ledger \in SUBSET Msgs, NEW acks \in SUBSET pending, NEW m \in Visible',
           committed < m, m \notin ledger, ~ Passed(m, X), \A r \in acks : m \notin r.covered,
           m <= pull \/ \A p \in pulled : p < m,
           Settle(X, pulled, ledger, acks)
    PROVE  Held(m)
  <1> DEFINE taken == Taken(X, ledger, acks)
  <1>1. /\ AdvanceCursors(Reached(X, ledger, taken), pulled, ledger)
        /\ pending' = pending \ taken /\ acked' = acks \ taken
    BY DEF Settle
  <1>2. m \in Msgs /\ pending \subseteq Receipts
    BY DEF Visible, CursorTypeOK
  <1>3. (\A r \in taken : r.cursor < m) /\ ~ Passed(m, Reached(X, ledger, taken))
    BY <1>2, TakenSkips
  <1>4. taken \in SUBSET pending
    BY TakenIsAcknowledged
  <1> HIDE DEF taken
  <1>5. Reached(X, ledger, taken) \in SUBSET Cursors
    BY <1>2, <1>4, ReachedIsBounded
  <1>6. committed' < m /\ m \notin deferred' /\ (m <= pull' => m <= pull)
    BY <1>1, <1>2, <1>3, <1>5, AdvanceHolds
  <1>7. \A r \in pending : m <= r.cursor => r \in pending'
    BY <1>1, <1>2, <1>3, CursorAssumption DEF Receipts, Msgs
  <1> QED
    BY <1>1, <1>6, <1>7 DEF Held, Unticked

LEMMA CompletionHolds ==
    ASSUME CursorTypeOK, acked \subseteq pending, NEW P \in SUBSET Msgs, NEW m \in Visible',
           Unticked(m), m \notin P, m <= pull \/ \A p \in P : p < m,
           CompleteOutOfBand(P)
    PROVE  Held(m)
  <1> DEFINE ledger == deferred \cup P
             held   == \E k \in Visible' : k > committed /\ \A p \in P : k < p
  <1>1. /\ ledger \in SUBSET Msgs /\ P \in SUBSET Cursors /\ {committed} \in SUBSET Cursors
        /\ m \in Msgs /\ m \notin ledger /\ committed < m
    BY CursorAssumption DEF CursorTypeOK, Cursors, Msgs, Visible, Unticked
  <1>2. ~ Passed(m, {committed})
    BY <1>1, CursorAssumption DEF Passed, CursorTypeOK, Cursors, Msgs
  <1>3. CASE held
    <2>1. AdvanceCursors({committed}, P, ledger) /\ UNCHANGED <<pending, acked>>
      BY <1>3 DEF CompleteOutOfBand
    <2> HIDE DEF ledger
    <2>2. committed' < m /\ m \notin deferred' /\ (m <= pull' => m <= pull)
      BY <1>1, <1>2, <2>1, AdvanceHolds
    <2> QED
      BY <2>1, <2>2 DEF Held, Unticked
  <1>4. CASE ~held
    <2>1. Settle(Flushed({committed}, ledger), P, ledger, acked)
      BY <1>4 DEF CompleteOutOfBand
    <2> HIDE DEF ledger
    <2>2. Flushed({committed}, ledger) \in SUBSET Cursors
      <3>1. Flushed({committed}, ledger) \subseteq {committed} \cup ledger
        BY FlushedIsBounded
      <3>2. Msgs \subseteq Cursors
        BY CursorAssumption DEF Cursors, Msgs
      <3> QED
        BY <1>1, <3>1, <3>2
    <2>3. ~ Passed(m, Flushed({committed}, ledger))
      BY <1>1, <1>2, FlushSkips
    <2>4. \A r \in acked : m \notin r.covered
      BY DEF Unticked
    <2> QED
      BY <1>1, <2>1, <2>2, <2>3, <2>4, SettleHolds
  <1> QED
    BY <1>3, <1>4

\* What the readers and the queue leave of it.
Read(m) ==
    /\ runner' # "off" => runner # "off"
    /\ \A who \in Readers :
         /\ batch'[who] \subseteq batch[who]
         /\ m \in batch[who] => m \in batch'[who] \/ (who = "loop" /\ batch'[who] = {})
         /\ m \in replies[who] => m \in replies'[who] \/ batch'[who] = {}
    /\ \/ check'
       \/ /\ m \in fresh \cup batch["loop"] => m \in fresh' \cup batch'["loop"]
          /\ check \/ retry \/ resting => check' \/ retry' \/ resting'

LEMMA HeldMinds ==
    ASSUME CursorTypeOK, CursorTypeOK', Shape, NEW m \in Msgs, Minded(m), Held(m), Read(m),
           UNCHANGED <<row, seen>>
    PROVE  Unticked(m)' /\ Pulled(m)' /\ Seen(m)' /\ Whole(m)' /\ Asked(m)'
  <1>1. Unticked(m)' /\ Pulled(m)'
    BY DEF Held, Minded, Pulled
  <1>2. m \in Nat /\ pull' \in Nat /\ pull \in Nat
    BY CursorAssumption DEF CursorTypeOK, Msgs, Cursors
  <1>3. (\E r \in pending : m <= r.cursor) => \E r \in pending' : m <= r.cursor
    BY DEF Held
  <1>4. m \in Covered => m \in Covered'
    <2> SUFFICES ASSUME NEW r \in pending, m \in r.covered PROVE r \in pending'
      BY DEF Covered
    <2>1. m <= r.cursor
      BY DEF Shape, IsLast
    <2> QED
      BY <2>1 DEF Held
  <1>5. Seen(m)'
    <2>1. CASE check'
      BY <1>1, <1>2, <2>1 DEF Seen, Pulled
    <2>2. CASE /\ m \in fresh \cup batch["loop"] => m \in fresh' \cup batch'["loop"]
               /\ check \/ retry \/ resting => check' \/ retry' \/ resting'
      <3>1. m \in batch["run"] => m \in batch'["run"]
        BY DEF Read, Readers
      <3>2. m > pull => m > pull'
        BY <1>2 DEF Held
      <3> QED
        BY <1>3, <2>2, <3>1, <3>2 DEF Seen, Minded
    <2> QED
      BY <2>1, <2>2 DEF Read
  <1>6. Whole(m)'
    BY <1>4 DEF Whole, Minded, Read, Held, Readers
  <1>7. Asked(m)'
    <2>1. m \in Commands => pull' < m
      BY <1>2 DEF Held, Minded, Asked
    <2>2. Visible' = Visible
      BY DEF Visible
    <2>3. ASSUME m \in Commands, NEW who \in Readers, NEW c \in batch'[who], m <= c
          PROVE  m \in replies'[who]
      BY <2>3 DEF Minded, Asked, Read
    <2> QED
      BY <2>1, <2>2, <2>3 DEF Minded, Asked
  <1> QED
    BY <1>1, <1>5, <1>6, <1>7

\* The end of a run, for a message that neither its commit passes nor its prompt holds.
LEMMA ExitMinds ==
    ASSUME CursorTypeOK, CursorTypeOK', NEW m \in Msgs, Minded(m),
           NEW X \in SUBSET Cursors, NEW left, ~ Passed(m, X), Exit(X, left), UNCHANGED row,
           m <= pull => left # {},
           \/ check \/ retry \/ resting \/ m \in batch["run"]
           \/ \E r \in pending : m <= r.cursor
           => check' \/ retry' \/ resting'
    PROVE  Minded(m)'
  <1>1. m \in Nat /\ pull' \in Nat /\ pull \in Nat /\ committed \in Nat
        /\ \A x \in X : x \in Nat
    BY CursorAssumption DEF CursorTypeOK, Msgs, Cursors
  <1>2. committed' < m
    BY <1>1 DEF Exit, IsLast, Passed, Minded, Unticked
  <1>3. pull' < m
    BY <1>1, <1>2 DEF Exit, PullAfterRun, Later
  <1>4. /\ pending' = {} /\ acked' = {} /\ runner' = "off"
        /\ batch'["run"] = {} /\ batch'["loop"] = batch["loop"]
        /\ replies'["loop"] = replies["loop"]
        /\ UNCHANGED <<seen, fresh>>
    BY DEF Exit, CursorTypeOK, Readers
  <1>5. Unticked(m)' /\ Pulled(m)'
    BY <1>1, <1>2, <1>3, <1>4 DEF Exit, Unticked, Pulled, Minded
  <1>6. Seen(m)'
    BY <1>1, <1>3, <1>4 DEF Seen, Minded
  <1>7. Whole(m)' /\ Prompted(m)'
    BY <1>4 DEF Whole, Prompted, Up
  <1>8. Asked(m)'
    BY <1>3, <1>4 DEF Asked, Minded, Visible, Readers
  <1> QED
    BY <1>5, <1>6, <1>7, <1>8 DEF Minded

\* A message that the prompt of a runner does not hold is not in its batch.
LEMMA NotSent ==
    ASSUME CursorTypeOK, Shape, NEW m \in Msgs, Minded(m), replies["run"] = {}, m \notin ToSend
    PROVE  m \notin batch["run"] /\ ~ Passed(m, ColdCursors)
  <1>1. m \notin batch["run"]
    BY CursorAssumption DEF ToSend, Minded, Asked, Readers, Msgs
  <1> QED
    BY <1>1 DEF Passed, ColdCursors, IsLast, ToSend, Minded, Whole

-----------------------------------------------------------------------------
(* The shape of the state *)

\* The cursors stay at rows of the chat, and receipts only go.
Placed ==
    /\ {pull', committed'} \subseteq Visible \cup {0}
    /\ deferred' \subseteq Visible
    /\ pending' \subseteq pending

LEMMA AdvancePlaces ==
    ASSUME Shape, NEW X \in SUBSET (Visible \cup {0}), NEW pulled \in SUBSET (Visible \cup {0}),
           NEW ledger \in SUBSET Visible, AdvanceCursors(X, pulled, ledger)
    PROVE  {pull', committed'} \subseteq Visible \cup {0} /\ deferred' \subseteq Visible
  BY DEF AdvanceCursors, IsLast, Shape

LEMMA SettlePlaces ==
    ASSUME Shape, NEW X \in SUBSET (Visible \cup {0}), NEW pulled \in SUBSET (Visible \cup {0}),
           NEW ledger \in SUBSET Visible, NEW acks, Settle(X, pulled, ledger, acks)
    PROVE  Placed
  <1> DEFINE taken == Taken(X, ledger, acks)
  <1>1. AdvanceCursors(Reached(X, ledger, taken), pulled, ledger) /\ pending' = pending \ taken
    BY DEF Settle
  <1>2. taken \subseteq pending
    BY TakenIsAcknowledged
  <1>3. CursorsOf(taken) \subseteq Visible
    BY <1>2 DEF CursorsOf, Shape, IsLast
  <1> HIDE DEF taken
  <1>4. Reached(X, ledger, taken) \subseteq X \cup CursorsOf(taken) \cup ledger
    <2>1. Flushed(X \cup CursorsOf(taken), ledger) \subseteq X \cup CursorsOf(taken) \cup ledger
      BY FlushedIsBounded
    <2> QED
      BY <2>1 DEF Reached
  <1>5. Reached(X, ledger, taken) \in SUBSET (Visible \cup {0})
    BY <1>3, <1>4
  <1> QED
    BY <1>1, <1>5, AdvancePlaces DEF Placed

LEMMA CompletionPlaces ==
    ASSUME Shape, NEW P \in SUBSET Visible, CompleteOutOfBand(P)
    PROVE  Placed
  <1> DEFINE ledger == deferred \cup P
  <1>1. ledger \in SUBSET Visible /\ {committed} \in SUBSET (Visible \cup {0})
        /\ P \in SUBSET (Visible \cup {0})
    BY DEF Shape
  <1>2. \/ AdvanceCursors({committed}, P, ledger) /\ UNCHANGED <<pending, acked>>
        \/ Settle(Flushed({committed}, ledger), P, ledger, acked)
    BY DEF CompleteOutOfBand
  <1>3. Flushed({committed}, ledger) \subseteq {committed} \cup ledger
    BY FlushedIsBounded
  <1>4. Flushed({committed}, ledger) \in SUBSET (Visible \cup {0})
    BY <1>1, <1>3
  <1> HIDE DEF ledger
  <1> QED
    BY <1>1, <1>2, <1>4, AdvancePlaces, SettlePlaces DEF Placed

LEMMA PlacedShapes ==
    ASSUME Shape, Placed, UNCHANGED row, seen' \in Visible \cup {0}, fresh' \subseteq Visible,
           \A who \in Readers : /\ batch'[who] \subseteq Visible
                                /\ replies'[who] \subseteq batch'[who] \cap Commands,
           runner' = "off" => batch'["run"] = {},
           Up' => replies'["run"] = {},
           runner' \in {"off", "expanding"} => outcome' = "open"
    PROVE  Shape'
  <1>1. Visible' = Visible
    BY DEF Visible
  <1>2. \A r \in pending' : r.covered \subseteq Visible' /\ IsLast(r.cursor, r.covered)
    BY <1>1 DEF Shape, Placed
  <1> QED
    BY <1>1, <1>2 DEF Shape, Placed, Readers

\* The places a run commits.
LEMMA RunPlaces ==
    ASSUME Shape
    PROVE  /\ ToSend \subseteq Visible /\ ColdCursors \subseteq Visible
           /\ {committed} \cup ColdCursors \in SUBSET (Visible \cup {0})
           /\ {committed} \in SUBSET (Visible \cup {0})
           /\ CursorsOf(pending) \subseteq Visible
           /\ Queued = {}
  BY DEF Shape, ToSend, ColdCursors, IsLast, CursorsOf, Queued

-----------------------------------------------------------------------------
(* One lemma per group of actions *)

USE DEF Readers

\* What the steps keep.
ImKept == Shape' /\ \A m \in Waiting' : Minded(m)'

\* Without a new row nothing begins to wait.
LEMMA WaitingShrinks ==
    ASSUME CursorTypeOK, handled \subseteq handled', UNCHANGED row, NEW m \in Waiting'
    PROVE  m \in Waiting /\ m \in Msgs /\ m \in Visible /\ m \in Visible' /\ m \notin handled'
  BY DEF Waiting, Visible

LEMMA ImStoresKeep ==
    ASSUME ImIInv, NEW n \in Msgs, ImStores(n)
    PROVE  ImKept
  <1>0. CursorTypeOK /\ acked \subseteq pending /\ Shape
    BY DEF ImIInv, CursorIInv
  <1>1. /\ row' = [row EXCEPT ![n] = "plain"]
        /\ UNCHANGED <<seen, pull, committed, deferred, readerVars, queueVars, runnerVars, handled>>
        /\ \A k \in Msgs : n <= k => row[k] = "absent"
        /\ n \in Commands => Waiting \subseteq Commands
    BY DEF ImStores, StoreFromChannel, IsNext
  <1>2. /\ Visible' = Visible \cup {n}
        /\ \A k \in Visible : k < n
        /\ 0 < n
    BY <1>0, <1>1, CursorAssumption DEF Visible, Shown, CursorTypeOK, Msgs
  <1>3. Shape'
    BY <1>0, <1>1, <1>2 DEF Shape, readerVars, queueVars, runnerVars, Up
  <1>4. ASSUME NEW m \in Waiting', m # n
        PROVE  Minded(m)'
    <2>1. m \in Waiting
      BY <1>1, <1>2, <1>4 DEF Waiting
    <2>2. Minded(m)
      BY <2>1 DEF ImIInv
    <2>3. Asked(m)'
      BY <1>1, <1>2, <2>1, <2>2 DEF Minded, Asked, readerVars
    <2>4. Unticked(m)' /\ Pulled(m)' /\ Seen(m)' /\ Whole(m)' /\ Prompted(m)'
      BY <1>1, <2>2 DEF Minded, Unticked, Pulled, Seen, Whole, Prompted, Covered, ToSend, Up,
         readerVars, queueVars, runnerVars
    <2> QED
      BY <2>3, <2>4 DEF Minded
  <1>5. Minded(n)'
    <2>1. seen < n /\ pull < n /\ committed < n
      BY <1>0, <1>2 DEF Shape
    <2>2. \A who \in Readers : \A c \in batch[who] : c < n
      BY <1>0, <1>2 DEF Shape
    <2>3. n \notin Visible /\ n \in Nat
      BY <1>2, CursorAssumption DEF Msgs
    <2>4. \A r \in pending : r.cursor < n /\ n \notin r.covered
      BY <1>0, <1>2, <2>3 DEF Shape, IsLast
    <2>t. seen \in Nat /\ pull \in Nat /\ (\A who \in Readers : batch[who] \subseteq Nat)
          /\ \A r \in pending : r.cursor \in Nat
      BY <1>0, CursorAssumption DEF CursorTypeOK, Cursors, Msgs, Receipts
    <2>5. Unticked(n)' /\ Pulled(n)' /\ Seen(n)'
      BY <1>0, <1>1, <2>1, <2>3, <2>4, <2>t DEF Unticked, Pulled, Seen, Shape, queueVars, runnerVars
    <2>6. Whole(n)'
      BY <1>1, <2>2, <2>3, <2>4, <2>t DEF Whole, readerVars, runnerVars
    <2>7. Asked(n)'
      BY <1>1, <1>2, <2>1, <2>2, <2>3, <2>t DEF Asked, readerVars
    <2>8. Prompted(n)'
      BY <1>0, <1>1, <2>3 DEF Prompted, ToSend, Shape, readerVars
    <2> QED
      BY <2>5, <2>6, <2>7, <2>8 DEF Minded
  <1>6. \A m \in Waiting' : Minded(m)'
    BY <1>4, <1>5
  <1> QED
    BY <1>3, <1>6 DEF ImKept

\* Whatever a reader gives up is asked for again, or over.
LEMMA PassedOnKeep ==
    ASSUME ImIInv, CursorTypeOK', UNCHANGED <<cursorVars, runnerVars, handled>>,
           replies'["run"] = replies["run"] /\ batch'["run"] = batch["run"],
           \/ PollRestartsRunner \/ PollIsRefused \/ PollAnswered \/ ReplyRefused
    PROVE  ImKept
  <1>0. CursorTypeOK /\ Shape
    BY DEF ImIInv, CursorIInv
  <1>1. /\ fresh' \subseteq fresh /\ batch'["loop"] \in {batch["loop"], {}}
        /\ replies'["loop"] = replies["loop"] \/ (replies'["loop"] = {} /\ batch'["loop"] = {})
        /\ PollAnswered \/ check'
        /\ PollAnswered => /\ batch["loop"] \subseteq Commands /\ replies["loop"] = {}
                           /\ UNCHANGED <<fresh, replies, queueVars>>
    BY <1>0 DEF PollRestartsRunner, PollIsRefused, PollAnswered, ReplyRefused, LoopIsDone,
       CursorTypeOK
  <1>t. Placed /\ seen' = seen /\ runner' = runner /\ outcome' = outcome /\ row' = row
    BY <1>0 DEF Placed, Shape, cursorVars, runnerVars
  <1>2. Shape'
    <2>1. \A who \in Readers : /\ batch'[who] \subseteq Visible
                               /\ replies'[who] \subseteq batch'[who] \cap Commands
      BY <1>0, <1>1 DEF Shape, PollAnswered, LoopIsDone, PollRestartsRunner, PollIsRefused, ReplyRefused
    <2>2. seen' \in Visible \cup {0} /\ fresh' \subseteq Visible
      BY <1>0, <1>1, <1>t DEF Shape
    <2>3. /\ runner' = "off" => batch'["run"] = {}
          /\ Up' => replies'["run"] = {}
          /\ runner' \in {"off", "expanding"} => outcome' = "open"
      BY <1>0, <1>t DEF Shape, Up
    <2> QED
      BY <1>0, <1>t, <2>1, <2>2, <2>3, PlacedShapes
  <1>3. ASSUME NEW m \in Waiting' PROVE Minded(m)'
    <2>1. m \in Waiting /\ m \in Msgs
      BY <1>0, <1>3, <1>t, WaitingShrinks DEF cursorVars
    <2>2. Minded(m)
      BY <2>1 DEF ImIInv
    <2>3. Held(m)
      BY <2>2 DEF Held, Minded, Unticked, cursorVars, runnerVars
    <2>4. PollAnswered => m \notin batch["loop"]
      BY <1>1, <2>1, <2>2, CursorAssumption DEF Minded, Asked, Msgs
    <2>5. Read(m)
      <3>1. \/ check'
            \/ /\ m \in fresh \cup batch["loop"] => m \in fresh' \cup batch'["loop"]
               /\ check \/ retry \/ resting => check' \/ retry' \/ resting'
        BY <1>1, <2>4 DEF queueVars
      <3>2. \A who \in Readers :
              /\ batch'[who] \subseteq batch[who]
              /\ m \in batch[who] => m \in batch'[who] \/ (who = "loop" /\ batch'[who] = {})
              /\ m \in replies[who] => m \in replies'[who] \/ batch'[who] = {}
        BY <1>1
      <3> QED
        BY <1>t, <3>1, <3>2 DEF Read
    <2>6. Unticked(m)' /\ Pulled(m)' /\ Seen(m)' /\ Whole(m)' /\ Asked(m)'
      BY <1>0, <1>t, <2>1, <2>2, <2>3, <2>5, HeldMinds
    <2>7. Prompted(m)'
      BY <1>t, <2>2 DEF Minded, Prompted, ToSend, Up, runnerVars
    <2> QED
      BY <2>6, <2>7 DEF Minded
  <1> QED
    BY <1>2, <1>3 DEF ImKept

LEMMA ReadingsKeep ==
    ASSUME ImIInv, PollReads \/ PollTakesUp
    PROVE  ImKept
  <1>0. CursorTypeOK /\ Shape
    BY DEF ImIInv, CursorIInv
  <1>1. /\ UNCHANGED <<row, pull, committed, deferred, queueVars, runnerVars, handled>>
        /\ batch'["run"] = batch["run"] /\ replies'["run"] = replies["run"]
    BY <1>0 DEF PollReads, PollTakesUp, CursorTypeOK, cursorVars
  <1>2. Placed /\ runner' = runner /\ outcome' = outcome /\ row' = row
    BY <1>0, <1>1 DEF Placed, Shape, runnerVars
  <1>3. CASE PollReads
    <2>1. /\ fresh = {} /\ batch' = batch /\ replies' = replies
          /\ fresh' = Since(seen) /\ seen' \in fresh'
      BY <1>3 DEF PollReads, IsLast
    <2>2. Shape'
      <3>1. seen' \in Visible \cup {0} /\ fresh' \subseteq Visible
        BY <2>1 DEF Since
      <3>2. \A who \in Readers : /\ batch'[who] \subseteq Visible
                                 /\ replies'[who] \subseteq batch'[who] \cap Commands
        BY <1>0, <2>1 DEF Shape
      <3>3. /\ runner' = "off" => batch'["run"] = {}
            /\ Up' => replies'["run"] = {}
            /\ runner' \in {"off", "expanding"} => outcome' = "open"
        BY <1>0, <1>1, <1>2 DEF Shape, Up
      <3> QED
        BY <1>0, <1>2, <3>1, <3>2, <3>3, PlacedShapes
    <2>3. ASSUME NEW m \in Waiting' PROVE Minded(m)'
      <3>1. m \in Waiting /\ m \in Msgs /\ m \in Visible
        BY <1>0, <1>1, <2>3, WaitingShrinks
      <3>2. Minded(m)
        BY <3>1 DEF ImIInv
      <3>3. m <= seen \/ m \in fresh'
        BY <1>0, <2>1, <3>1, CursorAssumption DEF Since, CursorTypeOK, Msgs, Cursors
      <3>4. Seen(m)'
        BY <1>1, <2>1, <3>2, <3>3 DEF Minded, Seen, queueVars, runnerVars
      <3>5. Unticked(m)' /\ Pulled(m)' /\ Whole(m)' /\ Asked(m)' /\ Prompted(m)'
        BY <1>1, <2>1, <3>2
           DEF Minded, Unticked, Pulled, Whole, Covered, Asked, Visible, Prompted, ToSend, Up,
               runnerVars
      <3> QED
        BY <3>4, <3>5 DEF Minded
    <2> QED
      BY <2>2, <2>3 DEF ImKept
  <1>4. CASE PollTakesUp
    <2> DEFINE B == IF Since(pull) = {} THEN fresh ELSE Since(pull)
    <2>1. /\ fresh' = {} /\ seen' = seen
          /\ batch' = [batch EXCEPT !["loop"] = B]
          /\ replies' = [replies EXCEPT !["loop"] = B \cap Commands]
      BY <1>4 DEF PollTakesUp, cursorVars
    <2>2. B \subseteq Visible
      BY <1>0 DEF Since, Shape
    <2>3. \A m \in Visible : pull < m => m \in B
      BY DEF Since
    <2> HIDE DEF B
    <2>4. batch'["loop"] = B /\ replies'["loop"] = B \cap Commands
      BY <1>0, <2>1 DEF CursorTypeOK
    <2>5. Shape'
      <3>1. seen' \in Visible \cup {0} /\ fresh' \subseteq Visible
        BY <1>0, <2>1 DEF Shape
      <3>2. \A who \in Readers : /\ batch'[who] \subseteq Visible
                                 /\ replies'[who] \subseteq batch'[who] \cap Commands
        BY <1>0, <1>1, <2>2, <2>4 DEF Shape
      <3>3. /\ runner' = "off" => batch'["run"] = {}
            /\ Up' => replies'["run"] = {}
            /\ runner' \in {"off", "expanding"} => outcome' = "open"
        BY <1>0, <1>1, <1>2 DEF Shape, Up
      <3> QED
        BY <1>0, <1>2, <3>1, <3>2, <3>3, PlacedShapes
    <2>6. ASSUME NEW m \in Waiting' PROVE Minded(m)'
      <3>1. m \in Waiting /\ m \in Msgs /\ m \in Visible
        BY <1>0, <1>1, <2>6, WaitingShrinks
      <3>2. Minded(m)
        BY <3>1 DEF ImIInv
      <3>3. m \in B \/ \E r \in pending : m <= r.cursor
        <4>1. m \in Nat /\ pull \in Nat
          BY <1>0, <3>1, CursorAssumption DEF CursorTypeOK, Msgs, Cursors
        <4> QED
          BY <2>3, <3>1, <3>2, <4>1 DEF Minded, Pulled
      <3>4. Seen(m)'
        BY <1>1, <2>4, <3>3 DEF Seen, runnerVars
      <3>5. Unticked(m)' /\ Pulled(m)' /\ Prompted(m)'
        BY <1>1, <3>2 DEF Minded, Unticked, Pulled, Prompted, ToSend, Up, runnerVars
      <3>6. Whole(m)'
        <4>1. Covered' = Covered /\ UNCHANGED <<pending, runner>>
          BY <1>1 DEF Covered, runnerVars
        <4>2. m \in B \cup batch["run"] \cup Covered
          BY <3>2, <3>3 DEF Minded, Whole
        <4> QED
          BY <1>1, <2>4, <3>2, <4>1, <4>2 DEF Minded, Whole
      <3>7. Asked(m)'
        <4>1. m \in Commands => m \in B
          BY <2>3, <3>1, <3>2 DEF Minded, Asked
        <4> QED
          BY <1>1, <2>4, <3>2, <4>1 DEF Minded, Asked, Visible
      <3> QED
        BY <3>4, <3>5, <3>6, <3>7 DEF Minded
    <2> QED
      BY <2>5, <2>6 DEF ImKept
  <1> QED
    BY <1>3, <1>4

\* What is dropped, or answered without an agent, is completed out of band.
LEMMA DropsKeep ==
    ASSUME ImIInv, CursorTypeOK', ImPollDrops
    PROVE  ImKept
  <1>0. CursorTypeOK /\ Shape /\ acked \subseteq pending
    BY DEF ImIInv, CursorIInv
  <1>1. /\ fresh' = {} /\ CompleteOutOfBand(fresh) /\ handled' = handled \cup fresh
        /\ UNCHANGED <<row, seen, batch, replies, queueVars, runner, turns, outcome>>
        /\ \A m \in Waiting \ fresh : m <= pull \/ \A f \in fresh : f < m
    BY DEF ImPollDrops, PollDrops
  <1>2. fresh \in SUBSET Visible /\ fresh \in SUBSET Msgs
    BY <1>0 DEF Shape, CursorTypeOK
  <1>3. Shape'
    <2>1. Placed
      BY <1>0, <1>1, <1>2, CompletionPlaces
    <2>2. \A who \in Readers : /\ batch'[who] \subseteq Visible
                               /\ replies'[who] \subseteq batch'[who] \cap Commands
      BY <1>0, <1>1 DEF Shape
    <2>3. /\ seen' \in Visible \cup {0} /\ fresh' \subseteq Visible
          /\ runner' = "off" => batch'["run"] = {}
          /\ Up' => replies'["run"] = {}
          /\ runner' \in {"off", "expanding"} => outcome' = "open"
      BY <1>0, <1>1 DEF Shape, Up
    <2> QED
      BY <1>0, <1>1, <2>1, <2>2, <2>3, PlacedShapes
  <1>4. ASSUME NEW m \in Waiting' PROVE Minded(m)'
    <2>1. m \in Waiting /\ m \in Msgs /\ m \in Visible' /\ m \notin fresh
      BY <1>0, <1>1, <1>4, WaitingShrinks
    <2>2. Minded(m) /\ Unticked(m)
      BY <2>1 DEF ImIInv, Minded
    <2>3. m <= pull \/ \A f \in fresh : f < m
      BY <1>1, <2>1
    <2>4. Held(m)
      BY <1>0, <1>1, <1>2, <2>1, <2>2, <2>3, CompletionHolds
    <2>5. Read(m)
      BY <1>1, <2>1 DEF Read, queueVars
    <2>6. Unticked(m)' /\ Pulled(m)' /\ Seen(m)' /\ Whole(m)' /\ Asked(m)'
      BY <1>0, <1>1, <2>1, <2>2, <2>4, <2>5, HeldMinds
    <2>7. Prompted(m)'
      BY <1>1, <2>2 DEF Minded, Prompted, ToSend, Up
    <2> QED
      BY <2>6, <2>7 DEF Minded
  <1> QED
    BY <1>3, <1>4 DEF ImKept

LEMMA AnswersKeep ==
    ASSUME ImIInv, CursorTypeOK', NEW who \in Readers, ReplyAcked(who)
    PROVE  ImKept
  <1>0. CursorTypeOK /\ Shape /\ acked \subseteq pending
    BY DEF ImIInv, CursorIInv
  <1>1. PICK n \in replies[who] :
          /\ IsFirst(n, replies[who])
          /\ IF batch[who] \subseteq Commands
             THEN CompleteOutOfBand({n})
             ELSE /\ pull' = Later(pull, n)
                  /\ UNCHANGED <<committed, deferred, pending, acked>>
          /\ replies' = [replies EXCEPT ![who] = @ \ {n}]
          /\ handled' = handled \cup {n}
          /\ UNCHANGED <<row, seen, fresh, batch, queueVars, runner, turns, outcome>>
    BY DEF ReplyAcked
  <1>2. /\ n \in Visible /\ n \in Msgs /\ n \in batch[who] /\ n \in Commands
        /\ {n} \in SUBSET Visible /\ {n} \in SUBSET Msgs
    BY <1>0 DEF Shape, Visible
  <1>3. \A w \in Readers : replies'[w] = IF w = who THEN replies[w] \ {n} ELSE replies[w]
    BY <1>0, <1>1 DEF CursorTypeOK
  <1>4. Shape'
    <2>1. Placed
      <3>1. CASE batch[who] \subseteq Commands
        BY <1>0, <1>1, <1>2, <3>1, CompletionPlaces
      <3>2. CASE ~ batch[who] \subseteq Commands
        BY <1>0, <1>1, <1>2, <3>2 DEF Placed, Later, Shape
      <3> QED
        BY <3>1, <3>2
    <2>2. \A w \in Readers : /\ batch'[w] \subseteq Visible
                             /\ replies'[w] \subseteq batch'[w] \cap Commands
      BY <1>0, <1>1, <1>3 DEF Shape
    <2>3. /\ seen' \in Visible \cup {0} /\ fresh' \subseteq Visible
          /\ runner' = "off" => batch'["run"] = {}
          /\ Up' => replies'["run"] = {}
          /\ runner' \in {"off", "expanding"} => outcome' = "open"
      BY <1>0, <1>1, <1>3 DEF Shape, Up
    <2> QED
      BY <1>0, <1>1, <2>1, <2>2, <2>3, PlacedShapes
  <1>5. ASSUME NEW m \in Waiting' PROVE Minded(m)'
    <2>1. m \in Waiting /\ m \in Msgs /\ m \in Visible' /\ m # n
      BY <1>0, <1>1, <1>5, WaitingShrinks
    <2>2. Minded(m) /\ Unticked(m)
      BY <2>1 DEF ImIInv, Minded
    <2>n. m \in Nat /\ n \in Nat /\ pull \in Nat
      BY <1>0, <1>2, <2>1, CursorAssumption DEF Msgs, CursorTypeOK, Cursors
    <2>3. n < m
      <3>1. CASE m \in Commands
        <4>1. m <= n => m \in replies[who]
          BY <1>2, <2>2, <3>1 DEF Minded, Asked
        <4> QED
          BY <1>1, <2>1, <2>n, <4>1 DEF IsFirst
      <3>2. CASE m \notin Commands
        BY <1>2, <2>2, <3>2 DEF Minded, Asked
      <3> QED
        BY <3>1, <3>2
    <2>4. Held(m)
      <3>1. CASE batch[who] \subseteq Commands
        BY <1>0, <1>1, <1>2, <2>1, <2>2, <2>3, <3>1, CompletionHolds
      <3>2. CASE ~ batch[who] \subseteq Commands
        <4>1. pull' = Later(pull, n) /\ UNCHANGED <<committed, deferred, pending, acked>>
          BY <1>1, <3>2
        <4> QED
          BY <2>2, <2>3, <2>n, <4>1 DEF Held, Unticked, Later
      <3> QED
        BY <3>1, <3>2
    <2>5. Read(m)
      BY <1>1, <1>3, <2>1 DEF Read, queueVars
    <2>6. Unticked(m)' /\ Pulled(m)' /\ Seen(m)' /\ Whole(m)' /\ Asked(m)'
      BY <1>0, <1>1, <2>1, <2>2, <2>4, <2>5, HeldMinds
    <2>7. Prompted(m)'
      BY <1>1, <2>2 DEF Minded, Prompted, ToSend, Up
    <2> QED
      BY <2>6, <2>7 DEF Minded
  <1> QED
    BY <1>4, <1>5 DEF ImKept

LEMMA ColdDropsKeep ==
    ASSUME ImIInv, CursorTypeOK', ColdDrops
    PROVE  ImKept
  <1>0. CursorTypeOK /\ Shape /\ acked \subseteq pending
    BY DEF ImIInv, CursorIInv
  <1>1. /\ runner = "expanding" /\ replies["run"] = {}
        /\ CompleteOutOfBand(ToSend) /\ handled' = handled \cup ToSend
        /\ batch' = [batch EXCEPT !["run"] = {}] /\ runner' = "off"
        /\ UNCHANGED <<row, seen, fresh, replies, check, retry, resting, turns, outcome>>
    BY DEF ColdDrops
  <1>2. ToSend \in SUBSET Visible /\ ToSend \in SUBSET Msgs
    BY <1>0, RunPlaces DEF Visible
  <1>3. batch'["run"] = {} /\ batch'["loop"] = batch["loop"]
    BY <1>0, <1>1 DEF CursorTypeOK
  <1>4. Shape'
    <2>1. Placed
      BY <1>0, <1>1, <1>2, CompletionPlaces
    <2>2. \A who \in Readers : /\ batch'[who] \subseteq Visible
                               /\ replies'[who] \subseteq batch'[who] \cap Commands
      BY <1>0, <1>1, <1>3 DEF Shape
    <2>3. /\ seen' \in Visible \cup {0} /\ fresh' \subseteq Visible
          /\ runner' = "off" => batch'["run"] = {}
          /\ Up' => replies'["run"] = {}
          /\ runner' \in {"off", "expanding"} => outcome' = "open"
      BY <1>0, <1>1, <1>3 DEF Shape, Up
    <2> QED
      BY <1>0, <1>1, <2>1, <2>2, <2>3, PlacedShapes
  <1>5. ASSUME NEW m \in Waiting' PROVE Minded(m)'
    <2>1. m \in Waiting /\ m \in Msgs /\ m \in Visible' /\ m \notin ToSend
      BY <1>0, <1>1, <1>5, WaitingShrinks
    <2>2. Minded(m) /\ Unticked(m)
      BY <2>1 DEF ImIInv, Minded
    <2>3. m \notin batch["run"]
      BY <1>0, <1>1, <2>1, <2>2, NotSent
    <2>4. \A p \in ToSend : p < m
      <3> SUFFICES ASSUME NEW p \in ToSend, ~ p < m PROVE FALSE
        OBVIOUS
      <3>1. p \in batch["run"] /\ m <= p
        BY <1>2, <2>1, CursorAssumption DEF ToSend, Msgs
      <3> QED
        BY <2>2, <2>3, <3>1 DEF Minded, Whole
    <2>5. Held(m)
      BY <1>0, <1>1, <1>2, <2>1, <2>2, <2>4, CompletionHolds
    <2>6. Read(m)
      BY <1>1, <1>3, <2>3 DEF Read
    <2>7. Unticked(m)' /\ Pulled(m)' /\ Seen(m)' /\ Whole(m)' /\ Asked(m)'
      BY <1>0, <1>1, <2>1, <2>2, <2>5, <2>6, HeldMinds
    <2>8. Prompted(m)'
      BY <1>1 DEF Prompted, Up
    <2> QED
      BY <2>7, <2>8 DEF Minded
  <1> QED
    BY <1>4, <1>5 DEF ImKept

\* A batch that is injected comes under a receipt, and is over with it.
LEMMA InjectionsKeep ==
    ASSUME ImIInv, CursorTypeOK', PollInjects
    PROVE  ImKept
  <1>0. CursorTypeOK /\ Shape /\ acked \subseteq pending
    BY DEF ImIInv, CursorIInv
  <1> DEFINE B == batch["loop"]
  <1>1. /\ replies["loop"] = {} /\ batch' = [batch EXCEPT !["loop"] = {}]
        /\ UNCHANGED <<row, seen, fresh, replies, queueVars, handled>>
        /\ Wake
    BY DEF PollInjects, LoopIsDone
  <1>2. PICK c \in B : IsLast(c, B) /\ Inject(B, c)
    BY DEF PollInjects
  <1>3. PICK id \in Nat : pending' = pending \cup {[id |-> id, cursor |-> c, covered |-> B]}
    <2>1. PICK n \in {0} \cup {r.id : r \in pending} :
             pending' = pending \cup {[id |-> n + 1, cursor |-> c, covered |-> B]}
      BY <1>2 DEF Inject
    <2>2. n + 1 \in Nat
      BY <1>0 DEF CursorTypeOK, Receipts
    <2> QED
      BY <2>1, <2>2
  <1> DEFINE new == [id |-> id, cursor |-> c, covered |-> B]
  <1>4. /\ pull' = Later(pull, c) /\ UNCHANGED <<committed, deferred, acked, turns, outcome>>
        /\ Up /\ runner' \in {"busy", "reserved"}
    BY <1>1, <1>2 DEF Inject, Injectable, Wake, Up
  <1>5. batch'["loop"] = {} /\ batch'["run"] = batch["run"]
    BY <1>0, <1>1 DEF CursorTypeOK
  <1>6. B \subseteq Visible /\ B \subseteq Msgs /\ c \in Msgs /\ c \in Visible
    BY <1>0, <1>2 DEF Shape, Visible
  <1>7. Covered' = Covered \cup B
    <2>1. pending' = pending \cup {new} /\ new.covered = B
      BY <1>3
    <2> HIDE DEF new, B
    <2> QED
      BY <2>1 DEF Covered
  <1>8. Shape'
    <2>1. Visible' = Visible
      BY <1>1 DEF Visible
    <2>2. \A r \in pending' : r.covered \subseteq Visible /\ IsLast(r.cursor, r.covered)
      <3>1. new.covered \subseteq Visible /\ IsLast(new.cursor, new.covered)
        BY <1>2, <1>6
      <3> QED
        BY <1>0, <1>3, <3>1 DEF Shape
    <2>3. {seen', pull', committed'} \subseteq Visible \cup {0}
      BY <1>0, <1>1, <1>4, <1>6 DEF Shape, Later
    <2> HIDE DEF B
    <2>4. /\ deferred' \cup fresh' \cup batch'["loop"] \cup batch'["run"] \subseteq Visible
          /\ \A who \in Readers : replies'[who] \subseteq batch'[who] \cap Commands
          /\ Up' => replies'["run"] = {}
          /\ \A k \in Msgs : row'[k] \in {"absent", "plain"}
      BY <1>0, <1>1, <1>4, <1>5 DEF Shape
    <2> QED
      BY <1>4, <2>1, <2>2, <2>3, <2>4 DEF Shape
  <1>9. ASSUME NEW m \in Waiting' PROVE Minded(m)'
    <2>1. m \in Waiting /\ m \in Msgs
      BY <1>0, <1>1, <1>9, WaitingShrinks
    <2>2. Minded(m)
      BY <2>1 DEF ImIInv
    <2>n. m \in Nat /\ c \in Nat /\ pull \in Nat /\ c <= c
      BY <1>0, <1>6, <2>1, CursorAssumption DEF Msgs, CursorTypeOK, Cursors
    <2>3. Unticked(m)'
      BY <1>4, <2>2 DEF Minded, Unticked
    <2>r. new \in pending' /\ new.cursor = c /\ \A r \in pending : r \in pending'
      BY <1>3
    <2>4. Pulled(m)'
      <3>1. m <= pull' => m <= pull \/ m <= c
        BY <1>4, <2>n DEF Later
      <3> HIDE DEF new
      <3> QED
        BY <2>2, <2>r, <3>1 DEF Minded, Pulled
    <2>b. m \in B => m <= c
      BY <1>2 DEF IsLast
    <2>5. Seen(m)'
      <3>1. m <= seen /\ m > pull /\ ~ m <= c => m > pull'
        BY <1>4, <2>n DEF Later
      <3>2. m > pull => m <= c \/ m > c
        BY <2>n
      <3> HIDE DEF new
      <3>3. m <= c => \E r \in pending' : m <= r.cursor
        BY <2>r
      <3>4. (\E r \in pending : m <= r.cursor) => \E r \in pending' : m <= r.cursor
        BY <2>r
      <3>5. m <= seen =>
              \/ m \in fresh \cup B \cup batch["run"]
              \/ \E r \in pending : m <= r.cursor
              \/ m > pull /\ (check \/ retry \/ resting)
        BY <2>2 DEF Minded, Seen
      <3>6. UNCHANGED <<seen, fresh, check, retry, resting>>
        BY <1>1 DEF queueVars
      <3> HIDE DEF B
      <3> QED
        BY <1>5, <2>b, <3>1, <3>2, <3>3, <3>4, <3>5, <3>6 DEF Seen
    <2>6. Whole(m)'
      <3>1. m <= c => m \in batch["run"] \cup Covered \cup B
        BY <1>2, <1>4, <2>2 DEF Minded, Whole, Up
      <3>2. ASSUME NEW r \in pending', m <= r.cursor PROVE m \in batch["run"] \cup Covered \cup B
        <4>1. CASE r \in pending
          BY <2>2, <3>2, <4>1 DEF Minded, Whole
        <4>2. CASE r = new
          BY <3>1, <3>2, <4>2
        <4> QED
          BY <1>3, <4>1, <4>2
      <3> HIDE DEF B
      <3> QED
        BY <1>5, <1>7, <2>2, <3>2 DEF Minded, Whole
    <2>7. Asked(m)'
      <3>1. m \in Commands => ~ m <= c
        BY <1>1, <1>2, <2>2 DEF Minded, Asked
      <3>2. m \in Commands => pull' < m
        BY <1>4, <2>2, <2>n, <3>1 DEF Minded, Asked, Later
      <3> QED
        BY <1>1, <1>5, <2>2, <3>2 DEF Minded, Asked, Visible
    <2>8. Prompted(m)'
      BY <1>4, <1>5, <2>2 DEF Minded, Prompted, ToSend, Up
    <2> QED
      BY <2>3, <2>4, <2>5, <2>6, <2>7, <2>8 DEF Minded
  <1> QED
    BY <1>8, <1>9 DEF ImKept

\* A cold start takes up everything that is not over.
LEMMA StartsKeep ==
    ASSUME ImIInv, CursorTypeOK', ColdStart
    PROVE  ImKept
  <1>0. CursorTypeOK /\ Shape /\ DownIsEmpty
    BY DEF ImIInv, CursorIInv
  <1>1. /\ runner = "off"
        /\ UNCHANGED <<cursorVars, fresh, pending, acked, turns, outcome, handled>>
    BY DEF ColdStart
  <1>2. \A m \in Waiting : m \in Since(pull)
    <2> SUFFICES ASSUME NEW m \in Waiting PROVE m \in Since(pull)
      OBVIOUS
    <2>1. m \in Visible /\ m \in Nat /\ pull \in Nat
      BY <1>0, CursorAssumption DEF Waiting, Visible, CursorTypeOK, Msgs, Cursors
    <2>2. ~ m <= pull
      BY <1>0, <1>1 DEF ImIInv, Minded, Pulled, DownIsEmpty
    <2> QED
      BY <2>1, <2>2 DEF Since
  <1>3. UNCHANGED <<row, seen, pull, committed, deferred>> /\ Placed /\ outcome' = "open"
    BY <1>0, <1>1 DEF Placed, Shape, cursorVars
  <1>4. CASE Since(pull) = {}
    <2>1. UNCHANGED <<batch, replies, runner>>
      BY <1>4 DEF ColdStart
    <2>2. Shape'
      <3>1. /\ seen' \in Visible \cup {0} /\ fresh' \subseteq Visible
            /\ \A who \in Readers : /\ batch'[who] \subseteq Visible
                                    /\ replies'[who] \subseteq batch'[who] \cap Commands
            /\ runner' = "off" => batch'["run"] = {}
            /\ Up' => replies'["run"] = {}
        BY <1>0, <1>1, <1>3, <2>1 DEF Shape, Up
      <3> QED
        BY <1>0, <1>3, <3>1, PlacedShapes
    <2>3. Waiting' = {}
      BY <1>1, <1>2, <1>3, <1>4 DEF Waiting, Visible
    <2> QED
      BY <2>2, <2>3 DEF ImKept
  <1>5. CASE Since(pull) # {}
    <2>1. /\ batch' = [batch EXCEPT !["run"] = Since(pull)]
          /\ replies' = [replies EXCEPT !["run"] = Since(pull) \cap Commands]
          /\ runner' = "expanding"
      BY <1>5 DEF ColdStart
    <2>2. /\ batch'["run"] = Since(pull) /\ replies'["run"] = Since(pull) \cap Commands
          /\ batch'["loop"] = batch["loop"] /\ replies'["loop"] = replies["loop"]
      BY <1>0, <2>1 DEF CursorTypeOK
    <2>3. Shape'
      <3>1. Since(pull) \subseteq Visible
        BY DEF Since
      <3>2. \A who \in Readers : /\ batch'[who] \subseteq Visible
                                 /\ replies'[who] \subseteq batch'[who] \cap Commands
        BY <1>0, <2>2, <3>1 DEF Shape
      <3>3. seen' \in Visible \cup {0} /\ fresh' \subseteq Visible
        BY <1>0, <1>1, <1>3 DEF Shape
      <3>4. runner' # "off" /\ ~Up'
        BY <2>1 DEF Up
      <3> QED
        BY <1>0, <1>3, <3>2, <3>3, <3>4, PlacedShapes
    <2>4. ASSUME NEW m \in Waiting' PROVE Minded(m)'
      <3>1. m \in Waiting /\ m \in Msgs
        BY <1>0, <1>1, <1>3, <2>4, WaitingShrinks
      <3>2. Minded(m) /\ m \in batch'["run"]
        BY <1>2, <2>2, <3>1 DEF ImIInv
      <3>3. Unticked(m)' /\ Pulled(m)' /\ Seen(m)' /\ Whole(m)'
        BY <1>1, <1>3, <3>2 DEF Minded, Unticked, Pulled, Seen, Whole, Covered
      <3>4. Asked(m)'
        BY <1>3, <2>2, <3>2 DEF Minded, Asked, Visible
      <3>5. Prompted(m)'
        BY <2>1 DEF Prompted, Up
      <3> QED
        BY <3>3, <3>4, <3>5 DEF Minded
    <2> QED
      BY <2>3, <2>4 DEF ImKept
  <1> QED
    BY <1>4, <1>5

\* The prompt is the first turn of a runner, and what it accepts comes after.
LEMMA LaunchesKeep ==
    ASSUME ImIInv, CursorTypeOK', Launch \/ Accept
    PROVE  ImKept
  <1>0. CursorTypeOK /\ Shape
    BY DEF ImIInv, CursorIInv
  <1>1. /\ UNCHANGED <<cursorVars, readerVars, queueVars, pending, acked, handled>>
        /\ runner # "off" => runner' # "off"
        /\ runner' # "off" => runner # "off"
        /\ UNCHANGED <<runner, outcome>> \/ (runner' = "busy" /\ replies["run"] = {})
    <2>1. Accept => runner' = runner /\ outcome' = outcome
      BY DEF Accept
    <2> QED
      BY <1>0, <2>1 DEF Launch, Accept, DownIsEmpty
  <1>2. Placed /\ UNCHANGED <<row, seen, fresh, batch, replies>>
    BY <1>0, <1>1 DEF Placed, Shape, cursorVars, readerVars
  <1>3. Shape'
    <2>1. /\ runner' = "off" => batch'["run"] = {}
          /\ Up' => replies'["run"] = {}
          /\ runner' \in {"off", "expanding"} => outcome' = "open"
      BY <1>0, <1>1, <1>2 DEF Shape, Up
    <2>2. /\ seen' \in Visible \cup {0} /\ fresh' \subseteq Visible
          /\ \A who \in Readers : /\ batch'[who] \subseteq Visible
                                  /\ replies'[who] \subseteq batch'[who] \cap Commands
      BY <1>0, <1>2 DEF Shape
    <2> QED
      BY <1>0, <1>2, <2>1, <2>2, PlacedShapes
  <1>4. ASSUME NEW m \in Waiting' PROVE Minded(m)'
    <2>1. m \in Waiting /\ m \in Msgs
      BY <1>0, <1>1, <1>2, <1>4, WaitingShrinks
    <2>2. Minded(m)
      BY <2>1 DEF ImIInv
    <2>3. Unticked(m)' /\ Pulled(m)' /\ Seen(m)' /\ Whole(m)' /\ Asked(m)'
      BY <1>1, <2>2 DEF Minded, Unticked, Pulled, Seen, Whole, Asked, Visible, Covered,
         cursorVars, readerVars, queueVars
    <2>4. CASE Launch
      <3>1. turns' = <<{}>> /\ outcome' = "open"
        BY <2>4 DEF Launch
      <3> QED
        BY <2>3, <3>1 DEF Minded, Prompted
    <2>5. CASE Accept
      <3>1. UNCHANGED <<runner, outcome, batch>>
        BY <2>5 DEF Accept, readerVars
      <3>2. ASSUME Up /\ m \in ToSend PROVE turns' # <<>> /\ Head(turns') = {}
        <4>1. turns # <<>> /\ Head(turns) = {}
          BY <2>2, <3>2 DEF Minded, Prompted
        <4>2. PICK r \in inbox : turns' = Append(turns, {r})
          BY <2>5, <4>1 DEF Accept
        <4>3. turns \in Seq(SUBSET Receipts) /\ {r} \in SUBSET Receipts
          BY <1>0 DEF CursorTypeOK
        <4> QED
          BY <4>1, <4>2, <4>3
      <3> QED
        BY <2>2, <2>3, <3>1, <3>2 DEF Minded, Prompted, ToSend, Up
    <2> QED
      BY <2>4, <2>5
  <1> QED
    BY <1>3, <1>4 DEF ImKept

\* A turn ends, or its reply is committed: what is still waiting is neither in the prompt
\* nor under a receipt of the turn.
LEMMA TurnMinds ==
    ASSUME ImIInv, CursorTypeOK', Up, Up', UNCHANGED <<row, seen, readerVars, queueVars>>,
           handled \subseteq handled',
           NEW X \in {{committed}, {committed} \cup ColdCursors},
           NEW acks \in SUBSET pending, Settle(X, {}, deferred, acks),
           \A m \in Waiting' : m \notin ToSend /\ \A r \in acks : m \notin r.covered
    PROVE  ImKept
  <1>0. CursorTypeOK /\ Shape
    BY DEF ImIInv, CursorIInv
  <1>1. X \in SUBSET (Visible \cup {0}) /\ deferred \in SUBSET Visible
    BY <1>0, RunPlaces DEF Shape
  <1>2. X \in SUBSET Cursors /\ deferred \in SUBSET Msgs /\ {} \in SUBSET Cursors
    BY <1>0, ColdCursorsAreMsgs DEF CursorTypeOK
  <1>3. Shape'
    <2>1. Placed
      <3>1. {} \in SUBSET (Visible \cup {0})
        OBVIOUS
      <3> QED
        BY <1>0, <1>1, <3>1, SettlePlaces
    <2>2. /\ seen' \in Visible \cup {0} /\ fresh' \subseteq Visible
          /\ \A who \in Readers : /\ batch'[who] \subseteq Visible
                                  /\ replies'[who] \subseteq batch'[who] \cap Commands
          /\ Up' => replies'["run"] = {}
      BY <1>0 DEF Shape, readerVars
    <2>3. runner' \notin {"off", "expanding"}
      BY DEF Up
    <2> QED
      BY <1>0, <2>1, <2>2, <2>3, PlacedShapes
  <1>4. ASSUME NEW m \in Waiting' PROVE Minded(m)'
    <2>1. m \in Waiting /\ m \in Msgs /\ m \in Visible' /\ m \notin ToSend
      BY <1>0, <1>4, WaitingShrinks
    <2>2. Minded(m) /\ Unticked(m)
      BY <2>1 DEF ImIInv, Minded
    <2>3. ~ Passed(m, X)
      <3>1. ~ Passed(m, ColdCursors)
        BY <1>0, <2>1, <2>2, NotSent DEF Shape
      <3>2. ~ Passed(m, {committed})
        BY <1>0, <2>1, <2>2, CursorAssumption DEF Unticked, Passed, CursorTypeOK, Msgs, Cursors
      <3> QED
        BY <3>1, <3>2 DEF Passed
    <2>4. /\ committed < m /\ m \notin deferred /\ \A r \in acks : m \notin r.covered
          /\ \A p \in {} : p < m
      BY <1>4, <2>2 DEF Unticked
    <2>5. Held(m)
      BY <1>0, <1>2, <2>1, <2>3, <2>4, SettleHolds
    <2>6. Read(m)
      BY DEF Read, Up, readerVars, queueVars
    <2>7. Unticked(m)' /\ Pulled(m)' /\ Seen(m)' /\ Whole(m)' /\ Asked(m)'
      BY <1>0, <2>1, <2>2, <2>5, <2>6, HeldMinds
    <2>8. Prompted(m)'
      BY <2>1 DEF Prompted, ToSend, readerVars
    <2> QED
      BY <2>7, <2>8 DEF Minded
  <1> QED
    BY <1>3, <1>4 DEF ImKept

\* With nobody waiting for the runner its query is idle at the end of a turn.
LEMMA IdleStays ==
    ASSUME Shape, QueryIsIdle \/ Dispatch, Up
    PROVE  row' = row /\ Up'
  <1>1. Queued = {}
    BY RunPlaces
  <1> QED
    BY <1>1 DEF QueryIsIdle, Dispatch, Up

LEMMA TurnsKeepIm ==
    ASSUME ImIInv, CursorTypeOK', Turns, ~Accept
    PROVE  ImKept
  <1>0. /\ CursorTypeOK /\ Shape /\ DownIsEmpty /\ acked \subseteq pending
        /\ {committed} \in {{committed}, {committed} \cup ColdCursors}
        /\ {committed} \cup ColdCursors \in {{committed}, {committed} \cup ColdCursors}
    BY DEF ImIInv, CursorIInv
  <1>1. CASE TurnEnds \/ Interrupt
    <2> DEFINE acks == acked \cup (Head(turns) \cap pending)
    <2>1. /\ turns # <<>> /\ Settle({committed}, {}, deferred, acks)
          /\ handled' = handled \cup Answered(Head(turns))
          /\ UNCHANGED <<seen, readerVars, queueVars>>
      BY <1>1 DEF TurnEnds, Interrupt
    <2>2. Up
      BY <1>0, <2>1 DEF DownIsEmpty, CursorTypeOK, Up
    <2>3. row' = row /\ Up'
      BY <1>0, <1>1, <2>2, IdleStays DEF TurnEnds, Interrupt, Up
    <2>4. acks \in SUBSET pending
      BY <1>0
    <2>5. ASSUME NEW m \in Waiting'
          PROVE  m \notin ToSend /\ \A r \in acks : m \notin r.covered
      <3>1. m \in Waiting /\ m \notin Answered(Head(turns))
        BY <1>0, <2>1, <2>3, <2>5, WaitingShrinks
      <3>2. Minded(m)
        BY <3>1 DEF ImIInv
      <3>3. m \notin ToSend
        BY <2>2, <3>1, <3>2 DEF Minded, Prompted, Answered
      <3>4. \A r \in Head(turns) : m \notin r.covered
        BY <3>1 DEF Answered
      <3> QED
        BY <3>2, <3>3, <3>4 DEF Minded, Unticked
    <2> HIDE DEF acks
    <2> QED
      BY <1>0, <2>1, <2>2, <2>3, <2>4, <2>5, TurnMinds
  <1>2. ASSUME outcome \in {"answering", "interrupted"}
        PROVE  Up /\ \A m \in Waiting : m \notin ToSend
    <2>1. Up
      BY <1>0, <1>2 DEF Shape, CursorTypeOK, Up
    <2> QED
      BY <1>2, <2>1 DEF ImIInv, Minded, Prompted
  <1>3. CASE ReplyCommits \/ InterruptCommits
    <2>1. /\ outcome \in {"answering", "interrupted"}
          /\ Settle({committed} \cup ColdCursors, {}, deferred, acked)
          /\ UNCHANGED <<row, seen, readerVars, queueVars, runner, handled>>
      BY <1>3 DEF ReplyCommits, InterruptCommits
    <2>2. Up /\ Up' /\ \A m \in Waiting : m \notin ToSend
      BY <1>2, <2>1 DEF Up
    <2>3. \A m \in Waiting' : m \notin ToSend /\ \A r \in acked : m \notin r.covered
      <3> SUFFICES ASSUME NEW m \in Waiting'
                   PROVE  m \notin ToSend /\ \A r \in acked : m \notin r.covered
        OBVIOUS
      <3>1. m \in Waiting
        BY <1>0, <2>1, WaitingShrinks
      <3> QED
        BY <2>2, <3>1 DEF ImIInv, Minded, Unticked
    <2> QED
      BY <1>0, <2>1, <2>2, <2>3, TurnMinds
  <1>4. CASE ReplyIsLost
    <2>1. /\ outcome = "answering" /\ outcome' = "healthy"
          /\ UNCHANGED <<cursorVars, readerVars, queueVars, runner, pending, acked, turns, handled>>
      BY <1>4 DEF ReplyIsLost
    <2>2. Up /\ \A m \in Waiting : m \notin ToSend
      BY <1>2, <2>1
    <2>3. Shape'
      BY <1>0, <2>1, <2>2 DEF Shape, Up, cursorVars, readerVars, Visible
    <2>4. ASSUME NEW m \in Waiting' PROVE Minded(m)'
      <3>1. m \in Waiting
        BY <1>0, <2>1, <2>4, WaitingShrinks DEF cursorVars
      <3>2. Minded(m) /\ m \notin ToSend
        BY <2>2, <3>1 DEF ImIInv
      <3>3. Unticked(m)' /\ Pulled(m)' /\ Seen(m)' /\ Whole(m)' /\ Asked(m)'
        BY <2>1, <3>2 DEF Minded, Unticked, Pulled, Seen, Whole, Asked, Visible, Covered,
           cursorVars, readerVars, queueVars
      <3>4. Prompted(m)'
        BY <2>1, <3>2 DEF Prompted, ToSend, readerVars
      <3> QED
        BY <3>3, <3>4 DEF Minded
    <2> QED
      BY <2>3, <2>4 DEF ImKept
  <1> QED
    BY <1>1, <1>3, <1>4 DEF Turns

LEMMA ExitShapes ==
    ASSUME Shape, CursorTypeOK, NEW X \in SUBSET (Visible \cup {0}), NEW left, Exit(X, left),
           UNCHANGED row
    PROVE  Shape'
  <1>1. Visible' = Visible
    BY DEF Visible
  <1>2. /\ batch'["run"] = {} /\ replies'["run"] = {} /\ UNCHANGED <<seen, fresh>>
        /\ batch'["loop"] = batch["loop"] /\ replies'["loop"] = replies["loop"]
        /\ pending' = {} /\ outcome' = "open" /\ deferred' \subseteq deferred
    BY DEF Exit, CursorTypeOK
  <1>3. {pull', committed'} \subseteq Visible \cup {0}
    <2>1. committed' \in Visible \cup {0}
      BY DEF Exit, IsLast, Shape
    <2>2. pull' \in {pull, committed'}
      BY DEF Exit, PullAfterRun, Later
    <2> QED
      BY <2>1, <2>2 DEF Shape
  <1> QED
    BY <1>1, <1>2, <1>3 DEF Shape

\* The end of a run that commits what its prompt and its receipts reached.
LEMMA CommitAndExitKeep ==
    ASSUME ImIInv, CursorTypeOK', Up, CommitAndExit, handled \subseteq handled',
           \A m \in Waiting' : m \notin ToSend
    PROVE  ImKept
  <1>0. CursorTypeOK /\ Shape /\ acked \in SUBSET pending
    BY DEF ImIInv, CursorIInv
  <1> DEFINE X == {committed} \cup ColdCursors
             taken == Taken(X, deferred, acked)
             left == pending \ taken
  <1>1. /\ row' = row /\ Exit(Reached(X, deferred, taken), left)
        /\ check' = (check \/ injected \/ left # {}) /\ UNCHANGED <<retry, resting>>
    BY DEF CommitAndExit
  <1>2. /\ X \in SUBSET Cursors /\ X \in SUBSET (Visible \cup {0})
        /\ deferred \in SUBSET Msgs /\ deferred \subseteq Visible /\ pending \subseteq Receipts
    BY <1>0, RunPlaces, ColdCursorsAreMsgs DEF CursorTypeOK, Shape
  <1>3. taken \in SUBSET pending
    BY TakenIsAcknowledged
  <1>t. ASSUME NEW m \in Waiting'
        PROVE  /\ m \in Waiting /\ m \in Msgs /\ Minded(m)
               /\ (\A r \in taken : r.cursor < m) /\ ~ Passed(m, Reached(X, deferred, taken))
    <2>1. m \in Waiting /\ m \in Msgs /\ m \in Visible'
      BY <1>0, <1>1, <1>t, WaitingShrinks
    <2>2. Minded(m) /\ m \notin deferred /\ committed < m /\ \A r \in acked : m \notin r.covered
      BY <2>1 DEF ImIInv, Minded, Unticked
    <2>3. ~ Passed(m, X)
      <3>1. ~ Passed(m, ColdCursors)
        BY <1>0, <1>t, <2>1, <2>2, NotSent DEF Shape
      <3>2. ~ Passed(m, {committed})
        BY <1>0, <2>1, <2>2, CursorAssumption DEF Passed, CursorTypeOK, Msgs, Cursors
      <3> QED
        BY <3>1, <3>2 DEF Passed
    <2> HIDE DEF X
    <2> QED
      BY <1>0, <1>2, <2>1, <2>2, <2>3, TakenSkips
  <1> HIDE DEF X, taken
  <1>4. Reached(X, deferred, taken) \in SUBSET Cursors
    BY <1>2, <1>3, ReachedIsBounded
  <1>5. Reached(X, deferred, taken) \in SUBSET (Visible \cup {0})
    <2>1. CursorsOf(taken) \subseteq Visible
      BY <1>0, <1>3 DEF CursorsOf, Shape, IsLast
    <2>2. Flushed(X \cup CursorsOf(taken), deferred) \subseteq X \cup CursorsOf(taken) \cup deferred
      BY FlushedIsBounded
    <2> QED
      BY <1>2, <2>1, <2>2 DEF Reached
  <1>6. Shape'
    BY <1>0, <1>1, <1>5, ExitShapes
  <1>7. ASSUME NEW m \in Waiting' PROVE Minded(m)'
    <2>1. /\ m \in Msgs /\ Minded(m)
          /\ (\A r \in taken : r.cursor < m) /\ ~ Passed(m, Reached(X, deferred, taken))
      BY <1>t, <1>7
    <2>2. m \notin batch["run"]
      BY <1>0, <1>7, <2>1, NotSent DEF Shape
    <2>3. (\E r \in pending : m <= r.cursor) => left # {}
      <3>1. ASSUME NEW r \in pending, m <= r.cursor PROVE r \in left
        <4>1. r.cursor \in Nat /\ m \in Nat
          BY <1>2, <2>1, CursorAssumption DEF Receipts, Msgs
        <4> QED
          BY <2>1, <3>1, <4>1
      <3> QED
        BY <3>1
    <2>4. m <= pull => left # {}
      BY <2>1, <2>3 DEF Minded, Pulled
    <2>5. (\/ check \/ retry \/ resting \/ m \in batch["run"]
           \/ \E r \in pending : m <= r.cursor)
          => check' \/ retry' \/ resting'
      BY <1>1, <2>2, <2>3
    <2> HIDE DEF left
    <2> QED
      BY <1>0, <1>1, <1>4, <2>1, <2>4, <2>5, ExitMinds
  <1> QED
    BY <1>6, <1>7 DEF ImKept

\* A run that fails will be tried again, or rests.
LEMMA FailuresKeep ==
    ASSUME ImIInv, CursorTypeOK', Failure
    PROVE  ImKept
  <1>0. CursorTypeOK /\ Shape
    BY DEF ImIInv, CursorIInv
  <1>1. row' = row /\ handled' = handled /\ Exit({committed}, pending) /\ (retry' \/ resting')
    BY DEF Failure
  <1>2. {committed} \in SUBSET Cursors /\ {committed} \in SUBSET (Visible \cup {0})
    BY <1>0, RunPlaces DEF CursorTypeOK
  <1>3. Shape'
    BY <1>0, <1>1, <1>2, ExitShapes
  <1>4. ASSUME NEW m \in Waiting' PROVE Minded(m)'
    <2>1. m \in Waiting /\ m \in Msgs
      BY <1>0, <1>1, <1>4, WaitingShrinks
    <2>2. Minded(m)
      BY <2>1 DEF ImIInv
    <2>3. ~ Passed(m, {committed})
      BY <1>0, <2>1, <2>2, CursorAssumption
         DEF Minded, Unticked, Passed, CursorTypeOK, Msgs, Cursors
    <2>4. m <= pull => pending # {}
      BY <2>2 DEF Minded, Pulled
    <2> QED
      BY <1>0, <1>1, <1>2, <2>1, <2>2, <2>3, <2>4, ExitMinds
  <1> QED
    BY <1>3, <1>4 DEF ImKept

\* Before its prompt a run has nothing to leave.
LEMMA ColdAnswersKeep ==
    ASSUME ImIInv, CursorTypeOK', ColdAnswers
    PROVE  ImKept
  <1>0. CursorTypeOK /\ Shape /\ DownIsEmpty
    BY DEF ImIInv, CursorIInv
  <1>1. /\ runner = "expanding" /\ replies["run"] = {} /\ ToSend = {}
        /\ row' = row /\ Exit({committed}, {}) /\ UNCHANGED <<check, retry, resting, handled>>
    BY DEF ColdAnswers
  <1>2. {committed} \in SUBSET Cursors /\ {committed} \in SUBSET (Visible \cup {0})
    BY <1>0, RunPlaces DEF CursorTypeOK
  <1>3. Shape'
    BY <1>0, <1>1, <1>2, ExitShapes
  <1>4. ASSUME NEW m \in Waiting' PROVE Minded(m)'
    <2>1. m \in Waiting /\ m \in Msgs
      BY <1>0, <1>1, <1>4, WaitingShrinks
    <2>2. Minded(m)
      BY <2>1 DEF ImIInv
    <2>3. ~ Passed(m, {committed})
      BY <1>0, <2>1, <2>2, CursorAssumption
         DEF Minded, Unticked, Passed, CursorTypeOK, Msgs, Cursors
    <2>4. ~ m <= pull /\ pending = {} /\ m \notin batch["run"]
      BY <1>0, <1>1, <2>1, <2>2, NotSent DEF Minded, Pulled, DownIsEmpty
    <2> QED
      BY <1>0, <1>1, <1>2, <2>1, <2>2, <2>3, <2>4, ExitMinds
  <1> QED
    BY <1>3, <1>4 DEF ImKept

\* What a stop gives up is everything it commits.
LEMMA StopsKeep ==
    ASSUME ImIInv, CursorTypeOK', StopGroup
    PROVE  ImKept
  <1>0. CursorTypeOK /\ Shape
    BY DEF ImIInv, CursorIInv
  <1> DEFINE X == IF pending = {} THEN {committed}
                  ELSE Flushed({committed} \cup CursorsOf(pending), deferred)
  <1>1. /\ Up /\ row' = row /\ Exit(X \cup ColdCursors, {})
        /\ resting' = TRUE /\ handled' = handled \cup ToSend \cup Covered
    BY DEF StopGroup, Up, Covered
  <1>2. {committed} \cup CursorsOf(pending) \in SUBSET Cursors
        /\ {committed} \cup CursorsOf(pending) \in SUBSET (Visible \cup {0})
        /\ deferred \in SUBSET Msgs /\ deferred \subseteq Visible
        /\ pending \subseteq Receipts
    BY <1>0, RunPlaces, CursorAssumption DEF CursorTypeOK, CursorsOf, Receipts, Msgs, Cursors, Shape
  <1>3. X \cup ColdCursors \subseteq {committed} \cup CursorsOf(pending) \cup deferred \cup ColdCursors
    <2>1. Flushed({committed} \cup CursorsOf(pending), deferred)
            \subseteq {committed} \cup CursorsOf(pending) \cup deferred
      BY FlushedIsBounded
    <2> QED
      BY <2>1
  <1>4. /\ X \cup ColdCursors \in SUBSET Cursors
        /\ X \cup ColdCursors \in SUBSET (Visible \cup {0})
    <2>1. Msgs \subseteq Cursors
      BY CursorAssumption DEF Msgs, Cursors
    <2> HIDE DEF X
    <2> QED
      BY <1>0, <1>2, <1>3, <2>1, RunPlaces, ColdCursorsAreMsgs
  <1>t. ASSUME NEW m \in Waiting'
        PROVE  /\ m \in Msgs /\ Minded(m) /\ ~ m <= pull
               /\ ~ Passed(m, X) /\ ~ Passed(m, ColdCursors)
    <2>1. m \in Waiting /\ m \in Msgs /\ m \in Visible' /\ m \notin ToSend /\ m \notin Covered
      BY <1>0, <1>1, <1>t, WaitingShrinks
    <2>2. Minded(m) /\ committed < m /\ m \notin deferred
      BY <2>1 DEF ImIInv, Minded, Unticked
    <2>3. m \notin batch["run"] /\ ~ Passed(m, ColdCursors)
      BY <1>0, <1>1, <2>1, <2>2, NotSent DEF Shape
    <2>4. \A r \in pending : ~ m <= r.cursor
      BY <2>1, <2>2, <2>3 DEF Minded, Whole
    <2>5. ~ m <= pull
      BY <2>2, <2>4 DEF Minded, Pulled
    <2>6. ~ Passed(m, {committed} \cup CursorsOf(pending))
      <3>1. ~ m <= committed
        BY <1>0, <2>1, <2>2, CursorAssumption DEF CursorTypeOK, Msgs, Cursors
      <3> QED
        BY <2>4, <3>1 DEF Passed, CursorsOf
    <2>7. ~ Passed(m, Flushed({committed} \cup CursorsOf(pending), deferred))
      BY <1>2, <2>1, <2>2, <2>6, FlushSkips
    <2>8. ~ Passed(m, X)
      BY <2>6, <2>7 DEF Passed
    <2> QED
      BY <2>1, <2>2, <2>3, <2>5, <2>8
  <1> HIDE DEF X
  <1>5. Shape'
    BY <1>0, <1>1, <1>4, ExitShapes
  <1>6. ASSUME NEW m \in Waiting' PROVE Minded(m)'
    <2>1. m \in Msgs /\ Minded(m) /\ ~ m <= pull
      BY <1>t, <1>6
    <2>2. ~ Passed(m, X \cup ColdCursors)
      BY <1>t, <1>6 DEF Passed
    <2> QED
      BY <1>0, <1>1, <1>4, <2>1, <2>2, ExitMinds
  <1> QED
    BY <1>5, <1>6 DEF ImKept

LEMMA EndsKeepIm ==
    ASSUME ImIInv, CursorTypeOK', RunnerExits \/ RunGivesUp \/ RunFails \/ InterruptedExits
    PROVE  ImKept
  <1>0. CursorTypeOK
    BY DEF ImIInv, CursorIInv
  <1>1. CASE RunnerExits
    <2>1. Up /\ outcome = "healthy" /\ CommitAndExit /\ handled' = handled /\ row' = row
      BY <1>1 DEF RunnerExits, Waits, Up, CommitAndExit
    <2>2. \A m \in Waiting' : m \notin ToSend
      <3> SUFFICES ASSUME NEW m \in Waiting' PROVE m \notin ToSend
        OBVIOUS
      <3>1. m \in Waiting
        BY <1>0, <2>1, WaitingShrinks
      <3> QED
        BY <2>1, <3>1 DEF ImIInv, Minded, Prompted
    <2> QED
      BY <2>1, <2>2, CommitAndExitKeep
  <1>2. CASE RunGivesUp
    <2>1. Up /\ CommitAndExit /\ handled' = handled \cup ToSend
      BY <1>2 DEF RunGivesUp, Up
    <2>2. \A m \in Waiting' : m \notin ToSend
      BY <2>1 DEF Waiting
    <2> QED
      BY <2>1, <2>2, CommitAndExitKeep
  <1>3. CASE RunFails \/ InterruptedExits
    BY <1>3, FailuresKeep DEF RunFails, InterruptedExits
  <1> QED
    BY <1>1, <1>2, <1>3

\* What a restart reads again is everything that is not over.
LEMMA RestartsKeep ==
    ASSUME ImIInv, CursorTypeOK', ImRestart
    PROVE  ImKept
  <1>0. CursorTypeOK /\ Shape
    BY DEF ImIInv, CursorIInv
  <1>1. row' = row
    <2>1. \A m \in Msgs : row[m] \notin {"queued", "promoting"}
      BY <1>0 DEF Shape
    <2>2. row' = [m \in Msgs |-> row[m]]
      BY <2>1 DEF ImRestart, Restart
    <2> QED
      BY <1>0, <2>2 DEF CursorTypeOK
  <1>2. /\ pull' = committed /\ UNCHANGED <<seen, committed, handled>>
        /\ deferred' = {} /\ fresh' = {} /\ pending' = {} /\ acked' = {} /\ runner' = "off"
        /\ batch' = [who \in Readers |-> {}] /\ replies' = [who \in Readers |-> {}]
        /\ outcome' = "open" /\ (seen > 0 => pull > 0)
        /\ (committed > 0 \/ pull > committed) /\ (\E m \in Visible' : m > committed) => check'
    BY DEF ImRestart, Restart
  <1>3. Shape'
    BY <1>0, <1>1, <1>2 DEF Shape, Visible
  <1>4. ASSUME NEW m \in Waiting' PROVE Minded(m)'
    <2>1. m \in Waiting /\ m \in Msgs /\ m \in Visible'
      BY <1>0, <1>1, <1>2, <1>4, WaitingShrinks
    <2>2. Minded(m) /\ committed < m
      BY <2>1 DEF ImIInv, Minded, Unticked
    <2>n. m \in Nat /\ m > 0 /\ committed \in Nat /\ seen \in Nat /\ pull \in Nat
      BY <1>0, <2>1, CursorAssumption DEF CursorTypeOK, Msgs, Cursors
    <2>3. Unticked(m)' /\ Pulled(m)' /\ Whole(m)' /\ Prompted(m)'
      BY <1>2, <2>2, <2>n DEF Unticked, Pulled, Whole, Prompted, Up
    <2>4. Seen(m)'
      <3>1. m <= seen => committed > 0 \/ pull > committed
        BY <1>2, <2>n
      <3>2. m <= seen => check'
        BY <1>2, <2>1, <2>2, <2>n, <3>1
      <3> QED
        BY <1>2, <2>2, <2>n, <3>2 DEF Seen
    <2>5. Asked(m)'
      BY <1>1, <1>2, <2>2 DEF Minded, Asked, Visible
    <2> QED
      BY <2>3, <2>4, <2>5 DEF Minded
  <1> QED
    BY <1>3, <1>4 DEF ImKept

LEMMA ImInitHolds == Init => ImIInv
  <1> SUFFICES ASSUME Init PROVE ImIInv
    OBVIOUS
  <1>1. CursorIInv
    BY InitHolds
  <1>2. Visible = 1..History /\ handled = 1..History
    <2>1. History \in Nat /\ Last \in Nat /\ History <= Last
      BY CursorAssumption
    <2>2. \A m \in Msgs : row[m] \in Shown <=> m <= History
      BY DEF Init, Shown
    <2>3. Visible \subseteq 1..History /\ 1..History \subseteq Visible
      BY <2>1, <2>2 DEF Visible, Msgs
    <2> QED
      BY <2>3 DEF Init
  <1>3. Waiting = {}
    BY <1>2 DEF Waiting
  <1>4. Shape
    BY <1>2, CursorAssumption DEF Init, Shape, Msgs, Up
  <1> QED
    BY <1>1, <1>3, <1>4 DEF ImIInv

\* A step of a chat in an IM channel is a step of the cursors.
LEMMA ImNextIsNext == ImNext => Next
  BY DEF ImNext, ImStores, PromptPolls, ImPollDrops, ImRestart, Next, Stores, Polls

LEMMA PromptNextIsImNext == PromptNext => ImNext
  BY DEF PromptNext, ImNext

LEMMA ImStepKeeps ==
    ASSUME ImIInv, ImNext
    PROVE  ImIInv'
  <1>0. CursorIInv
    BY DEF ImIInv
  <1>1. Kept
    BY <1>0, ImNextIsNext, StepKeeps
  <1>2. CursorIInv' /\ CursorTypeOK'
    BY <1>1 DEF Kept, Tracked, CursorIInv
  <1>3. ASSUME PollRestartsRunner \/ PollIsRefused \/ PollAnswered \/ ReplyRefused
        PROVE  ImKept
    <2>1. /\ UNCHANGED <<cursorVars, runnerVars, handled>>
          /\ replies'["run"] = replies["run"] /\ batch'["run"] = batch["run"]
      BY <1>0, <1>3 DEF PollRestartsRunner, PollIsRefused, PollAnswered, ReplyRefused, LoopIsDone,
         CursorIInv, CursorTypeOK
    <2> QED
      BY <1>2, <1>3, <2>1, PassedOnKeep
  <1>4. ImKept
    BY <1>2, <1>3, ImStoresKeep, ReadingsKeep, DropsKeep, AnswersKeep, ColdDropsKeep,
       InjectionsKeep, StartsKeep, LaunchesKeep, TurnsKeepIm, ColdAnswersKeep, StopsKeep,
       EndsKeepIm, RestartsKeep
       DEF ImNext, PromptPolls, Replies, Runs, Turns
  <1> QED
    BY <1>2, <1>4 DEF ImKept, ImIInv

LEMMA ImStutterKeeps ==
    ASSUME ImIInv, UNCHANGED vars
    PROVE  ImIInv'
  <1>1. CursorIInv'
    BY StutterKeeps DEF ImIInv
  <1>2. Shape'
    BY DEF ImIInv, Shape, Up, Visible, vars, cursorVars, readerVars, queueVars, runnerVars
  <1>3. \A m \in Waiting' : Minded(m)'
    BY DEF ImIInv, Waiting, Visible, Minded, Unticked, Pulled, Seen, Whole, Asked, Prompted, Up,
       Covered, ToSend, vars, cursorVars, readerVars, queueVars, runnerVars
  <1> QED
    BY <1>1, <1>2, <1>3 DEF ImIInv

-----------------------------------------------------------------------------
(* The theorems about a chat in an IM channel                                *)

\* What is assumed of the surroundings only leaves out behaviours of the cursors.
LEMMA ImChatIsAChat == ImSpec => Spec
  <1>1. [ImNext]_vars => [Next]_vars
    BY ImNextIsNext
  <1> QED
    BY <1>1, PTL DEF ImSpec, Spec

THEOREM ImInvariance == ImSpec => []ImIInv
  <1>1. ImIInv /\ [ImNext]_vars => ImIInv'
    BY ImStepKeeps, ImStutterKeeps
  <1> QED
    BY <1>1, ImInitHolds, PTL DEF ImSpec

\* In a chat that keeps to ImSpec (no Web messages, rows in their order, a command only
\* behind prompts that are over, no refused notice, no drop behind a message that waits for
\* a cold start, no crash before the first pull) no message that has been seen is forgotten
\* before it is over: somebody holds it, a receipt covers its place, or a cold start will
\* read it.  Without the third of these a message is forgotten (delivery_cursor_mixed).
THEOREM NothingIsForgotten == ImSpec => []NoneForgotten
  <1>1. ImIInv => NoneForgotten
    BY DEF ImIInv, Minded, Seen, NoneForgotten, Waiting
  <1> QED
    BY <1>1, ImInvariance, PTL

\* In such a chat the cursor a restart trusts passes no message that is not over, whatever
\* run fails, is interrupted, stopped or replayed.
THEOREM CommitsAreHandled == ImSpec => []CommittedIsHandled
  <1>1. ImIInv => CommittedIsHandled
    <2> SUFFICES ASSUME ImIInv, NEW m \in Visible, m <= committed, m \notin handled PROVE FALSE
      BY DEF CommittedIsHandled
    <2>1. m \in Waiting /\ m \in Nat /\ committed \in Nat
      BY CursorAssumption
         DEF Waiting, Visible, ImIInv, CursorIInv, CursorTypeOK, Msgs, Cursors
    <2>2. committed < m
      BY <2>1 DEF ImIInv, Minded, Unticked
    <2> QED
      BY <2>1, <2>2
  <1> QED
    BY <1>1, ImInvariance, PTL

-----------------------------------------------------------------------------
(* Without commands, and with nothing dropped by the poller, what is committed is also *)
(* all there is when nothing is under way.                                   *)

\* The only commands are those of the history, behind every cursor.
Prompting ==
    /\ \A c \in Visible \cap Commands : c <= seen /\ c <= pull /\ c <= committed
    /\ (fresh \cup batch["loop"] \cup batch["run"]) \cap Commands = {}
    /\ deferred = {}

\* What has been pulled and is not committed is under a receipt, or its prompt is.
PullIsOwed == pull <= committed \/ \E r \in pending : pull <= r.cursor

\* What has been seen and is not committed is with a reader, under a receipt, or due.
Owed(m) ==
    committed < m /\ m <= seen =>
        \/ m \in fresh \cup batch["loop"] \cup batch["run"]
        \/ \E r \in pending : m <= r.cursor
        \/ check \/ retry \/ resting

\* A prompt leaves out nothing that is not committed.
RunIsWhole(m) == committed < m => \A c \in batch["run"] : m <= c => m \in batch["run"]

PromptIInv ==
    /\ ImIInv
    /\ Prompting
    /\ PullIsOwed
    /\ \A m \in Visible : Owed(m) /\ RunIsWhole(m)

PromptKept == Prompting' /\ PullIsOwed' /\ \A m \in Visible' : Owed(m)' /\ RunIsWhole(m)'

\* A step that commits, and leaves what it does not commit to a receipt or a cold start.
LEMMA Repays ==
    ASSUME PromptIInv, CursorTypeOK', Moves, UNCHANGED <<row, seen>>, deferred' = {},
           fresh' = fresh, batch'["loop"] = batch["loop"],
           batch'["run"] \in {batch["run"], {}},
           \/ \A c \in batch["run"] : c <= committed'
           \/ batch'["run"] = batch["run"]
           \/ check' \/ retry' \/ resting',
           \A r \in pending :
               r \in pending' \/ r.cursor <= committed' \/ check' \/ retry' \/ resting',
           check \/ retry \/ resting => check' \/ retry' \/ resting',
           PullIsOwed'
    PROVE  PromptKept
  <1>0. CursorTypeOK /\ Prompting /\ committed <= committed' /\ Visible' = Visible
    BY DEF PromptIInv, ImIInv, CursorIInv, Moves, Visible
  <1>1. /\ committed \in Nat /\ committed' \in Nat /\ pull \in Nat /\ pull' \in Nat
        /\ \A m \in Visible : m \in Nat
    BY <1>0, CursorAssumption DEF CursorTypeOK, Cursors, Msgs, Visible
  <1>2. Prompting'
    <2>1. \A c \in Visible' \cap Commands : c <= seen' /\ c <= pull' /\ c <= committed'
      BY <1>0, <1>1 DEF Prompting, Moves
    <2> QED
      BY <1>0, <2>1 DEF Prompting
  <1>3. ASSUME NEW m \in Visible PROVE Owed(m)' /\ RunIsWhole(m)'
    <2>1. Owed(m) /\ RunIsWhole(m)
      BY <1>3 DEF PromptIInv
    <2>2. committed' < m => committed < m
      BY <1>0, <1>1, <1>3
    <2>3. RunIsWhole(m)'
      BY <2>1, <2>2 DEF RunIsWhole
    <2>4. ASSUME committed' < m, m <= seen', ~ (check' \/ retry' \/ resting')
          PROVE  \/ m \in fresh' \cup batch'["loop"] \cup batch'["run"]
                 \/ \E r \in pending' : m <= r.cursor
      <3>1. \/ m \in fresh \cup batch["loop"] \cup batch["run"]
            \/ \E r \in pending : m <= r.cursor
        BY <2>1, <2>2, <2>4 DEF Owed
      <3>2. m \in batch["run"] => m \in batch'["run"]
        BY <1>1, <1>3, <2>4
      <3>3. ASSUME NEW r \in pending, m <= r.cursor PROVE r \in pending'
        <4>1. r.cursor \in Nat
          BY <1>0, CursorAssumption DEF CursorTypeOK, Receipts, Msgs
        <4> QED
          BY <1>1, <1>3, <2>4, <3>3, <4>1
      <3> QED
        BY <3>1, <3>2, <3>3
    <2>5. Owed(m)'
      BY <2>4 DEF Owed
    <2> QED
      BY <2>3, <2>5
  <1> QED
    BY <1>0, <1>2, <1>3 DEF PromptKept

\* Nothing that is taken is beyond the committed cursor, and nothing is pulled beyond it.
Repaid(X) ==
    /\ \A x \in X \cup {committed} : x <= committed'
    /\ \A r \in pending : r \in pending' \/ r.cursor <= committed'
    /\ pull' <= committed' \/ pull' = pull
    /\ deferred' = {}

LEMMA SettleRepays ==
    ASSUME CursorTypeOK, CursorTypeOK', NEW X \in SUBSET Cursors, NEW acks,
           Settle(X, {}, {}, acks)
    PROVE  Repaid(X)
  <1> DEFINE taken == Taken(X, {}, acks)
  <1>1. /\ AdvanceCursors(Reached(X, {}, taken), {}, {}) /\ pending' = pending \ taken
    BY DEF Settle
  <1> HIDE DEF taken
  <1>2. X \cup CursorsOf(taken) \subseteq Reached(X, {}, taken)
    <2>1. X \cup CursorsOf(taken) \subseteq Flushed(X \cup CursorsOf(taken), {})
      BY FlushedIsBounded
    <2> QED
      BY <2>1 DEF Reached, CursorsOf
  <1>3. \A x \in X \cup CursorsOf(taken) \cup {committed} : x <= committed'
    BY <1>1, <1>2 DEF AdvanceCursors, IsLast
  <1>4. pull' <= committed' \/ pull' = pull
    BY <1>1 DEF AdvanceCursors, IsLast
  <1> QED
    BY <1>1, <1>3, <1>4 DEF AdvanceCursors, Repaid, CursorsOf

LEMMA RepaidPull ==
    ASSUME PromptIInv, CursorTypeOK', NEW X, Repaid(X)
    PROVE  PullIsOwed'
  <1>1. CursorTypeOK
    BY DEF PromptIInv, ImIInv, CursorIInv
  <1>2. committed \in Nat /\ committed' \in Nat /\ pull \in Nat /\ committed <= committed'
    <2>1. {committed, committed', pull} \subseteq Cursors /\ committed <= committed'
      BY <1>1 DEF CursorTypeOK, Repaid
    <2> QED
      BY <2>1, CursorAssumption DEF Cursors
  <1>3. CASE pull' <= committed'
    BY <1>3 DEF PullIsOwed
  <1>4. CASE pull' = pull /\ pull <= committed
    BY <1>2, <1>4 DEF PullIsOwed
  <1>5. ASSUME NEW r \in pending, pull' = pull, pull <= r.cursor PROVE PullIsOwed'
    <2>1. r.cursor \in Nat
      BY <1>1, CursorAssumption DEF CursorTypeOK, Receipts, Msgs
    <2>2. CASE r \in pending'
      BY <1>5, <2>2 DEF PullIsOwed
    <2>3. CASE r.cursor <= committed'
      BY <1>2, <1>5, <2>1, <2>3 DEF PullIsOwed
    <2> QED
      BY <2>2, <2>3 DEF Repaid
  <1> QED
    BY <1>3, <1>4, <1>5 DEF Repaid, PromptIInv, PullIsOwed

LEMMA PromptTurns ==
    ASSUME PromptIInv, CursorTypeOK', Moves,
           TurnEnds \/ Interrupt \/ ReplyCommits \/ InterruptCommits
    PROVE  PromptKept
  <1>0. /\ CursorTypeOK /\ Shape /\ DownIsEmpty /\ deferred = {}
        /\ {committed} \in SUBSET Cursors /\ {committed} \cup ColdCursors \in SUBSET Cursors
    BY ColdCursorsAreMsgs DEF PromptIInv, ImIInv, CursorIInv, Prompting
  <1>1. /\ \E X \in SUBSET Cursors : \E acks : Settle(X, {}, {}, acks)
        /\ UNCHANGED <<seen, readerVars, queueVars>>
    <2>1. TurnEnds => Settle({committed}, {}, {}, acked \cup (Head(turns) \cap pending))
                      /\ UNCHANGED <<seen, readerVars, queueVars>>
      BY <1>0 DEF TurnEnds
    <2>2. Interrupt => Settle({committed}, {}, {}, acked \cup (Head(turns) \cap pending))
                       /\ UNCHANGED <<seen, readerVars, queueVars>>
      BY <1>0 DEF Interrupt
    <2>3. ReplyCommits \/ InterruptCommits =>
            Settle({committed} \cup ColdCursors, {}, {}, acked)
            /\ UNCHANGED <<seen, readerVars, queueVars>>
      BY <1>0 DEF ReplyCommits, InterruptCommits
    <2> QED
      BY <1>0, <2>1, <2>2, <2>3
  <1>2. row' = row
    <2>1. CASE TurnEnds \/ Interrupt
      <3>1. turns # <<>>
        BY <2>1 DEF TurnEnds, Interrupt
      <3>2. Up
        BY <1>0, <3>1 DEF DownIsEmpty, CursorTypeOK, Up
      <3> QED
        BY <1>0, <2>1, <3>2, IdleStays DEF TurnEnds, Interrupt
    <2>2. CASE ReplyCommits \/ InterruptCommits
      BY <2>2 DEF ReplyCommits, InterruptCommits
    <2> QED
      BY <2>1, <2>2
  <1>3. PICK X \in SUBSET Cursors : Repaid(X)
    BY <1>0, <1>1, SettleRepays
  <1>4. PullIsOwed'
    BY <1>3, RepaidPull
  <1>5. /\ deferred' = {} /\ \A r \in pending : r \in pending' \/ r.cursor <= committed'
    BY <1>3 DEF Repaid
  <1> QED
    BY <1>1, <1>2, <1>4, <1>5, Repays DEF readerVars, queueVars

\* Every prompt reaches to a last message.
LEMMA PromptHasLast ==
    ASSUME NEW S \in SUBSET Msgs, NEW m \in S
    PROVE  \E c \in S : IsLast(c, S)
  <1> USE CursorAssumption DEF Msgs
  <1> DEFINE T == {Last - k : k \in S}
  <1>1. T \in SUBSET Nat /\ T # {}
    OBVIOUS
  <1>2. PICK n \in T : \A k \in T : n <= k
    <2> HIDE DEF T
    <2> QED
      BY <1>1, MinimumExists
  <1>3. PICK c \in S : n = Last - c
    BY <1>2
  <1>4. ASSUME NEW k \in S PROVE k <= c
    <2>1. Last - k \in T
      OBVIOUS
    <2>2. Last - c <= Last - k
      BY <1>2, <1>3, <2>1
    <2> QED
      BY <2>2
  <1> QED
    BY <1>3, <1>4 DEF IsLast

\* What an end of a run commits reaches the end of its prompt.
LEMMA ColdCursorsReach ==
    ASSUME PromptIInv
    PROVE  /\ ToSend = batch["run"]
           /\ \A n : (\A c \in ColdCursors : c <= n) /\ n \in Nat => \A c \in batch["run"] : c <= n
  <1>1. ToSend = batch["run"] /\ batch["run"] \in SUBSET Msgs
    BY DEF PromptIInv, Prompting, ToSend, ImIInv, CursorIInv, CursorTypeOK
  <1>2. ASSUME NEW n \in Nat, \A c \in ColdCursors : c <= n, NEW c \in batch["run"] PROVE c <= n
    <2>1. PICK d \in ToSend : IsLast(d, ToSend)
      BY <1>1, <1>2, PromptHasLast
    <2>2. c <= d /\ d \in ColdCursors
      BY <1>1, <2>1 DEF IsLast, ColdCursors
    <2>3. c \in Nat /\ d \in Nat
      BY <1>1, CursorAssumption DEF Msgs
    <2> QED
      BY <1>2, <2>2, <2>3
  <1> QED
    BY <1>1, <1>2

LEMMA PromptEnds ==
    ASSUME PromptIInv, CursorTypeOK', Moves,
           RunnerExits \/ RunGivesUp \/ RunFails \/ InterruptedExits \/ ColdAnswers \/ StopGroup
    PROVE  PromptKept
  <1>0. CursorTypeOK /\ Shape /\ DownIsEmpty /\ deferred = {} /\ PullIsOwed
    BY DEF PromptIInv, ImIInv, CursorIInv, Prompting
  <1>1. /\ row' = row /\ \E X, left : Exit(X, left)
    BY DEF RunnerExits, RunGivesUp, RunFails, InterruptedExits, ColdAnswers, StopGroup, Failure,
       CommitAndExit
  <1>2. /\ UNCHANGED <<seen, fresh>> /\ deferred' = {} /\ pending' = {}
        /\ batch'["loop"] = batch["loop"] /\ batch'["run"] = {}
    BY <1>0, <1>1 DEF Exit, CursorTypeOK
  <1>n. committed \in Nat /\ committed' \in Nat /\ pull \in Nat /\ committed <= committed'
    BY <1>0, CursorAssumption DEF CursorTypeOK, Cursors, Moves
  <1>r. \A r \in pending : r.cursor \in Nat
    BY <1>0, CursorAssumption DEF CursorTypeOK, Receipts, Msgs
  <1>p. ASSUME NEW X, NEW left, Exit(X, left),
               left = {} => \A r \in pending : r.cursor <= committed'
        PROVE  PullIsOwed'
    <2>1. left = {} => pull <= committed'
      BY <1>0, <1>n, <1>p, <1>r DEF PullIsOwed
    <2>2. pull' <= committed'
      BY <1>n, <1>p, <2>1 DEF Exit, PullAfterRun, Later
    <2> QED
      BY <2>2 DEF PullIsOwed
  <1>3. CASE RunnerExits \/ RunGivesUp
    <2> DEFINE X == {committed} \cup ColdCursors
               taken == Taken(X, {}, acked)
               left == pending \ taken
    <2>1. /\ Exit(Reached(X, {}, taken), left)
          /\ check' = (check \/ injected \/ left # {}) /\ UNCHANGED <<retry, resting>>
      BY <1>0, <1>3 DEF RunnerExits, RunGivesUp, CommitAndExit
    <2> HIDE DEF X, taken
    <2>2. X \cup CursorsOf(taken) \subseteq Reached(X, {}, taken)
      <3>1. X \cup CursorsOf(taken) \subseteq Flushed(X \cup CursorsOf(taken), {})
        BY FlushedIsBounded
      <3> QED
        BY <3>1 DEF Reached, CursorsOf
    <2>3. \A x \in X \cup CursorsOf(taken) : x <= committed'
      BY <2>1, <2>2 DEF Exit, IsLast
    <2>4. \A c \in batch["run"] : c <= committed'
      BY <1>n, <2>3, ColdCursorsReach DEF X
    <2>5. \A r \in pending : r.cursor <= committed' \/ check'
      <3> SUFFICES ASSUME NEW r \in pending PROVE r.cursor <= committed' \/ check'
        OBVIOUS
      <3>1. CASE r \in taken
        BY <2>3, <3>1 DEF CursorsOf
      <3>2. CASE r \notin taken
        BY <2>1, <3>2
      <3> QED
        BY <3>1, <3>2
    <2>6. PullIsOwed'
      <3>1. left = {} => \A r \in pending : r.cursor <= committed'
        BY <2>3 DEF CursorsOf
      <3> HIDE DEF left
      <3> QED
        BY <1>p, <2>1, <3>1
    <2> QED
      BY <1>1, <1>2, <2>1, <2>4, <2>5, <2>6, Repays
  <1>4. CASE RunFails \/ InterruptedExits
    <2>1. Exit({committed}, pending) /\ (retry' \/ resting')
      BY <1>4 DEF RunFails, InterruptedExits, Failure
    <2>2. PullIsOwed'
      BY <1>p, <2>1
    <2> QED
      BY <1>1, <1>2, <2>1, <2>2, Repays
  <1>5. CASE ColdAnswers
    <2>1. /\ Exit({committed}, {}) /\ ToSend = {} /\ pending = {}
          /\ UNCHANGED <<check, retry, resting>>
      BY <1>0, <1>5 DEF ColdAnswers, DownIsEmpty
    <2>2. PullIsOwed'
      BY <1>p, <2>1
    <2>3. batch["run"] = {}
      BY <2>1, ColdCursorsReach
    <2> QED
      BY <1>1, <1>2, <2>1, <2>2, <2>3, Repays
  <1>6. CASE StopGroup
    <2> DEFINE X == IF pending = {} THEN {committed}
                    ELSE Flushed({committed} \cup CursorsOf(pending), {})
    <2>1. Exit(X \cup ColdCursors, {}) /\ resting' = TRUE
      BY <1>0, <1>6 DEF StopGroup
    <2>2. CursorsOf(pending) \subseteq X
      <3>1. {committed} \cup CursorsOf(pending) \subseteq Flushed({committed} \cup CursorsOf(pending), {})
        BY FlushedIsBounded
      <3> QED
        BY <3>1 DEF CursorsOf
    <2> HIDE DEF X
    <2>3. \A r \in pending : r.cursor <= committed'
      BY <2>1, <2>2 DEF Exit, IsLast, CursorsOf
    <2>4. PullIsOwed'
      BY <1>p, <2>1, <2>3
    <2> QED
      BY <1>1, <1>2, <2>1, <2>4, Repays
  <1> QED
    BY <1>3, <1>4, <1>5, <1>6

\* A prompt that is dropped is all there is to commit.
LEMMA PromptDrops ==
    ASSUME PromptIInv, CursorTypeOK', Moves, ColdDrops
    PROVE  PromptKept
  <1>0. /\ CursorTypeOK /\ Shape /\ DownIsEmpty /\ acked \subseteq pending
        /\ deferred = {} /\ PullIsOwed
    BY DEF PromptIInv, ImIInv, CursorIInv, Prompting
  <1>1. /\ row' = row /\ ToSend # {} /\ CompleteOutOfBand(ToSend) /\ runner = "expanding"
        /\ batch' = [batch EXCEPT !["run"] = {}]
        /\ UNCHANGED <<seen, fresh, check, retry, resting>>
    BY DEF ColdDrops
  <1>2. /\ pending = {} /\ acked = {} /\ pull <= committed
        /\ ToSend = batch["run"] /\ Visible' = Visible /\ ToSend \subseteq Visible
        /\ batch'["run"] = {} /\ batch'["loop"] = batch["loop"]
    BY <1>0, <1>1, ColdCursorsReach, RunPlaces DEF DownIsEmpty, PullIsOwed, Visible, CursorTypeOK
  <1>n. /\ committed \in Nat /\ committed' \in Nat /\ pull \in Nat /\ pull' \in Nat
        /\ committed <= committed'
        /\ \A m \in Visible : m \in Nat
    <2>1. {committed, committed', pull, pull'} \subseteq Cursors /\ committed <= committed'
      BY <1>0 DEF CursorTypeOK, Moves
    <2> QED
      BY <2>1, CursorAssumption DEF Cursors, Visible, Msgs
  <1>3. \A m \in Visible : committed < m => \A c \in ToSend : m <= c => m \in ToSend
    BY <1>2 DEF PromptIInv, RunIsWhole
  <1> DEFINE X == Flushed({committed}, ToSend)
  <1>4. X = {committed} \cup ToSend
    <2>1. ASSUME NEW d \in ToSend, NEW m \in Visible', m < d
          PROVE  m \in ToSend \/ Passed(m, {committed})
      BY <1>2, <1>3, <1>n, <2>1 DEF Passed
    <2> QED
      BY <2>1 DEF Flushed
  <1>5. ~ \E m \in Visible' : m > committed /\ \A p \in ToSend : m < p
    <2> SUFFICES ASSUME NEW m \in Visible, m > committed, \A p \in ToSend : m < p PROVE FALSE
      BY <1>2
    <2>1. PICK p \in ToSend : TRUE
      BY <1>1
    <2>2. m \in ToSend /\ m \in Nat
      BY <1>2, <1>3, <1>n, <2>1
    <2> QED
      BY <2>2
  <1>6. AdvanceCursors(Reached(X, ToSend, Taken(X, ToSend, {})), ToSend, ToSend) /\ pending' = {}
    <2>1. Settle(Flushed({committed}, deferred \cup ToSend), ToSend, deferred \cup ToSend, acked)
      BY <1>1, <1>5 DEF CompleteOutOfBand
    <2>2. Settle(X, ToSend, ToSend, {})
      BY <1>0, <1>2, <2>1
    <2> QED
      BY <1>2, <2>2 DEF Settle
  <1>7. Reached(X, ToSend, Taken(X, ToSend, {})) = X
    <2>1. Taken(X, ToSend, {}) = {}
      BY <1>2 DEF Taken
    <2> QED
      BY <2>1 DEF Reached
  <1>8. /\ \A c \in batch["run"] : c <= committed'
        /\ pull' <= committed'
        /\ deferred' = {}
    <2>1. \A c \in ToSend : c <= committed'
      BY <1>4, <1>6, <1>7 DEF AdvanceCursors, IsLast
    <2>2. pull' \in {committed, pull} \cup ToSend
      BY <1>4, <1>6, <1>7 DEF AdvanceCursors, IsLast
    <2>3. pull' <= committed'
      BY <1>2, <1>n, <2>1, <2>2
    <2>4. deferred' = {}
      <3>1. deferred' = {d \in ToSend : d > committed'}
        BY <1>6 DEF AdvanceCursors
      <3> QED
        BY <1>2, <1>n, <2>1, <3>1
    <2> QED
      BY <1>2, <2>1, <2>3, <2>4
  <1>9. PullIsOwed'
    BY <1>8 DEF PullIsOwed
  <1> QED
    BY <1>1, <1>2, <1>8, <1>9, Repays

LEMMA PromptStores ==
    ASSUME PromptIInv, CursorTypeOK', NEW n \in Msgs \ Commands, ImStores(n)
    PROVE  PromptKept
  <1>0. CursorTypeOK /\ Shape
    BY DEF PromptIInv, ImIInv, CursorIInv
  <1>1. /\ row' = [row EXCEPT ![n] = "plain"]
        /\ UNCHANGED <<seen, pull, committed, deferred, readerVars, queueVars, runnerVars>>
        /\ \A k \in Msgs : n <= k => row[k] = "absent"
    BY DEF ImStores, StoreFromChannel, IsNext
  <1>2. /\ Visible' = Visible \cup {n} /\ n \in Nat /\ 0 < n
        /\ \A k \in Visible : k \in Nat /\ k < n
    BY <1>0, <1>1, CursorAssumption DEF Visible, Shown, CursorTypeOK, Msgs
  <1>3. Prompting' /\ PullIsOwed'
    BY <1>1, <1>2 DEF PromptIInv, Prompting, PullIsOwed, readerVars, runnerVars
  <1>4. ASSUME NEW m \in Visible PROVE Owed(m)' /\ RunIsWhole(m)'
    BY <1>1, <1>4 DEF PromptIInv, Owed, RunIsWhole, readerVars, queueVars, runnerVars
  <1>5. Owed(n)' /\ RunIsWhole(n)'
    <2>1. seen \in Nat /\ seen < n /\ \A c \in batch["run"] : c \in Nat /\ c < n
      BY <1>0, <1>2 DEF Shape
    <2> QED
      BY <1>1, <1>2, <2>1 DEF Owed, RunIsWhole, readerVars
  <1> QED
    BY <1>2, <1>3, <1>4, <1>5 DEF PromptKept

\* Nothing is answered without an agent.
LEMMA NothingIsAnswered ==
    ASSUME PromptIInv
    PROVE  ~ PollAnswered /\ ~ Replies
  <1>0. Shape /\ Prompting
    BY DEF PromptIInv, ImIInv
  <1>1. \A who \in Readers : replies[who] = {}
    BY <1>0 DEF Shape, Prompting
  <1>2. ~ PollAnswered
    BY <1>0 DEF PollAnswered, LoopIsDone, Prompting
  <1>3. ~ ReplyRefused /\ \A who \in Readers : ~ ReplyAcked(who)
    BY <1>1 DEF ReplyRefused, ReplyAcked
  <1> QED
    BY <1>2, <1>3 DEF Replies

LEMMA PromptPollsKeep ==
    ASSUME PromptIInv, CursorTypeOK', Moves, PromptPolls
    PROVE  PromptKept
  <1>0. CursorTypeOK /\ Shape /\ Prompting /\ PullIsOwed /\ \A m \in Visible : Owed(m) /\ RunIsWhole(m)
    BY DEF PromptIInv, ImIInv, CursorIInv
  <1>n. seen \in Nat /\ pull \in Nat /\ committed \in Nat /\ \A m \in Visible : m \in Nat
    BY <1>0, CursorAssumption DEF CursorTypeOK, Cursors, Msgs, Visible
  <1>1. UNCHANGED <<row, committed, deferred, queueVars>> \/ (UNCHANGED <<row, committed, deferred>> /\ check')
    BY <1>0, NothingIsAnswered DEF PromptPolls, PollReads, PollTakesUp, PollRestartsRunner, PollInjects,
       PollIsRefused, Inject, cursorVars
  <1>v. Visible' = Visible /\ batch'["run"] = batch["run"] /\ deferred' = {}
    BY <1>0, <1>1, NothingIsAnswered DEF Visible, PromptPolls, PollReads, PollTakesUp, PollRestartsRunner,
       PollInjects, PollIsRefused, LoopIsDone, CursorTypeOK, Prompting
  <1>2. \A m \in Visible : RunIsWhole(m)'
    BY <1>0, <1>1, <1>v DEF RunIsWhole
  <1>3. CASE PollReads
    <2>1. /\ fresh = {} /\ fresh' = Since(seen) /\ IsLast(seen', fresh')
          /\ UNCHANGED <<row, pull, committed, deferred, batch, queueVars, runnerVars>>
      BY <1>3 DEF PollReads
    <2>2. Prompting'
      <3>1. seen <= seen'
        BY <1>n, <2>1 DEF IsLast, Since
      <3>2. seen' \in Nat
        BY <1>n, <2>1 DEF IsLast, Since
      <3>3. Since(seen) \cap Commands = {}
        BY <1>0, <1>n DEF Prompting, Since
      <3>4. \A c \in Visible' \cap Commands : c <= seen' /\ c <= pull' /\ c <= committed'
        BY <1>0, <1>n, <1>v, <2>1, <3>1, <3>2 DEF Prompting
      <3> QED
        BY <1>0, <1>v, <2>1, <3>3, <3>4 DEF Prompting
    <2>3. ASSUME NEW m \in Visible PROVE Owed(m)'
      <3>1. m <= seen \/ m \in fresh'
        BY <1>n, <2>1, <2>3 DEF Since
      <3> QED
        BY <1>0, <2>1, <2>3, <3>1 DEF Owed, queueVars, runnerVars
    <2>4. PullIsOwed'
      BY <1>0, <2>1 DEF PullIsOwed, runnerVars
    <2> QED
      BY <1>v, <1>2, <2>2, <2>3, <2>4 DEF PromptKept
  <1>4. CASE PollTakesUp
    <2> DEFINE B == IF Since(pull) = {} THEN fresh ELSE Since(pull)
    <2>1. /\ fresh' = {} /\ batch' = [batch EXCEPT !["loop"] = B]
          /\ UNCHANGED <<cursorVars, queueVars, runnerVars>>
      BY <1>4 DEF PollTakesUp
    <2>2. batch'["loop"] = B
      BY <1>0, <2>1 DEF CursorTypeOK
    <2>3. B \cap Commands = {}
      BY <1>0, <1>n DEF Prompting, Since
    <2>4. \A m \in Visible : pull < m => m \in B
      BY DEF Since
    <2> HIDE DEF B
    <2>5. Prompting' /\ PullIsOwed'
      <3>1. (fresh' \cup batch'["loop"] \cup batch'["run"]) \cap Commands = {}
        BY <1>0, <1>v, <2>1, <2>2, <2>3 DEF Prompting
      <3> QED
        BY <1>0, <1>v, <2>1, <3>1 DEF Prompting, PullIsOwed, cursorVars, runnerVars
    <2>6. ASSUME NEW m \in Visible PROVE Owed(m)'
      <3>1. m \in B \/ m <= pull
        BY <1>n, <2>4, <2>6
      <3>2. m <= pull => m <= committed \/ \E r \in pending : m <= r.cursor
        <4>1. ASSUME NEW r \in pending, pull <= r.cursor, m <= pull PROVE m <= r.cursor
          <5>1. r.cursor \in Nat
            BY <1>0, CursorAssumption DEF CursorTypeOK, Receipts, Msgs
          <5> QED
            BY <1>n, <2>6, <4>1, <5>1
        <4> QED
          BY <1>0, <1>n, <2>6, <4>1 DEF PullIsOwed
      <3>3. committed < m => ~ m <= committed
        BY <1>n, <2>6
      <3>4. UNCHANGED <<committed, seen, pending>>
        BY <2>1 DEF cursorVars, runnerVars
      <3> QED
        BY <2>2, <3>1, <3>2, <3>3, <3>4 DEF Owed
    <2> QED
      BY <1>v, <1>2, <2>5, <2>6 DEF PromptKept
  <1>5. CASE PollRestartsRunner \/ PollIsRefused
    <2>1. /\ check' = TRUE /\ UNCHANGED <<cursorVars, runnerVars>>
          /\ fresh' \subseteq fresh /\ batch'["loop"] \subseteq batch["loop"]
      BY <1>0, <1>5 DEF PollRestartsRunner, PollIsRefused, LoopIsDone, CursorTypeOK
    <2>2. Prompting' /\ PullIsOwed'
      BY <1>0, <1>v, <2>1 DEF Prompting, PullIsOwed, cursorVars, runnerVars
    <2>3. \A m \in Visible : Owed(m)'
      BY <2>1 DEF Owed
    <2> QED
      BY <1>v, <1>2, <2>2, <2>3 DEF PromptKept
  <1>6. CASE PollInjects
    <2>1. PICK c \in batch["loop"] : IsLast(c, batch["loop"]) /\ Inject(batch["loop"], c)
      BY <1>6 DEF PollInjects
    <2>2. /\ UNCHANGED <<seen, fresh, queueVars, committed>> /\ batch'["loop"] = {}
          /\ pull' = Later(pull, c)
      BY <1>0, <1>6, <2>1 DEF PollInjects, Inject, LoopIsDone, CursorTypeOK
    <2>3. /\ \A r \in pending : r \in pending'
          /\ \E r \in pending' : r.cursor = c
      <3>1. PICK n : pending' = pending \cup {[id |-> n + 1, cursor |-> c, covered |-> batch["loop"]]}
        BY <2>1 DEF Inject
      <3> DEFINE new == [id |-> n + 1, cursor |-> c, covered |-> batch["loop"]]
      <3>2. pending' = pending \cup {new} /\ new.cursor = c
        BY <3>1
      <3> HIDE DEF new
      <3> QED
        BY <3>2
    <2>t. c \in Nat /\ c <= c
      BY <1>0, <1>n, <2>1 DEF Shape
    <2>4. PullIsOwed'
      BY <1>0, <2>2, <2>3, <2>t DEF PullIsOwed, Later
    <2>5. Prompting'
      <3>1. pull <= pull' /\ pull' \in Nat
        BY <1>n, <2>2, <2>t DEF Later
      <3>2. \A k \in Visible' \cap Commands : k <= seen' /\ k <= pull' /\ k <= committed'
        BY <1>0, <1>n, <1>v, <2>2, <3>1 DEF Prompting
      <3> QED
        BY <1>0, <1>v, <2>2, <3>2 DEF Prompting
    <2>6. ASSUME NEW m \in Visible PROVE Owed(m)'
      <3>1. m \in batch["loop"] => \E r \in pending' : m <= r.cursor
        BY <2>1, <2>3 DEF IsLast
      <3>2. (\E r \in pending : m <= r.cursor) => \E r \in pending' : m <= r.cursor
        BY <2>3
      <3>3. Owed(m)
        BY <1>0, <2>6
      <3> QED
        BY <1>v, <2>2, <3>1, <3>2, <3>3 DEF Owed, queueVars
    <2> QED
      BY <1>v, <1>2, <2>4, <2>5, <2>6 DEF PromptKept
  <1> QED
    BY <1>3, <1>4, <1>5, <1>6, NothingIsAnswered DEF PromptPolls

LEMMA PromptStarts ==
    ASSUME PromptIInv, CursorTypeOK', Moves, ColdStart
    PROVE  PromptKept
  <1>0. /\ CursorTypeOK /\ DownIsEmpty /\ Prompting /\ PullIsOwed
        /\ \A m \in Visible : Owed(m) /\ RunIsWhole(m)
    BY DEF PromptIInv, ImIInv, CursorIInv
  <1>n. pull \in Nat /\ committed \in Nat /\ \A m \in Visible : m \in Nat
    BY <1>0, CursorAssumption DEF CursorTypeOK, Cursors, Msgs, Visible
  <1>1. /\ UNCHANGED <<row, seen, pull, committed, deferred, fresh, pending>> /\ pending = {}
        /\ pull <= committed /\ Visible' = Visible
    BY <1>0 DEF ColdStart, cursorVars, DownIsEmpty, PullIsOwed, Visible
  <1>2. \A m \in Visible : committed < m => m \in Since(pull)
    BY <1>n, <1>1 DEF Since
  <1>3. /\ batch'["loop"] = batch["loop"]
        /\ \/ batch'["run"] = Since(pull)
           \/ Since(pull) = {} /\ batch'["run"] = batch["run"]
    <2>1. CASE Since(pull) = {}
      BY <2>1 DEF ColdStart
    <2>2. CASE Since(pull) # {}
      BY <1>0, <2>2 DEF ColdStart, CursorTypeOK
    <2> QED
      BY <2>1, <2>2
  <1>4. Prompting'
    <2>1. Since(pull) \cap Commands = {}
      BY <1>0, <1>n DEF Prompting, Since
    <2>2. (fresh' \cup batch'["loop"] \cup batch'["run"]) \cap Commands = {}
      BY <1>0, <1>1, <1>3, <2>1 DEF Prompting
    <2> QED
      BY <1>0, <1>1, <2>2 DEF Prompting
  <1>5. PullIsOwed'
    BY <1>1 DEF PullIsOwed
  <1>6. \A m \in Visible : Owed(m)' /\ RunIsWhole(m)'
    BY <1>1, <1>2, <1>3 DEF Owed, RunIsWhole
  <1> QED
    BY <1>1, <1>4, <1>5, <1>6 DEF PromptKept

LEMMA PromptRestarts ==
    ASSUME PromptIInv, CursorTypeOK', ImRestart
    PROVE  PromptKept
  <1>0. CursorTypeOK /\ Shape /\ Prompting
    BY DEF PromptIInv, ImIInv, CursorIInv
  <1>n. pull \in Nat /\ committed \in Nat /\ seen \in Nat /\ \A m \in Visible : m \in Nat /\ m > 0
    BY <1>0, CursorAssumption DEF CursorTypeOK, Cursors, Msgs, Visible
  <1>1. row' = row
    <2>1. \A m \in Msgs : row[m] \notin {"queued", "promoting"}
      BY <1>0 DEF Shape
    <2>2. row' = [m \in Msgs |-> row[m]]
      BY <2>1 DEF ImRestart, Restart
    <2> QED
      BY <1>0, <2>2 DEF CursorTypeOK
  <1>2. /\ pull' = committed /\ UNCHANGED <<seen, committed>> /\ Visible' = Visible
        /\ deferred' = {} /\ fresh' = {} /\ batch'["loop"] = {} /\ batch'["run"] = {}
        /\ (seen > 0 => pull > 0)
        /\ (committed > 0 \/ pull > committed) /\ (\E m \in Visible' : m > committed) => check'
    BY <1>1 DEF ImRestart, Restart, Visible
  <1>3. Prompting' /\ PullIsOwed' /\ \A m \in Visible : RunIsWhole(m)'
    BY <1>0, <1>n, <1>2 DEF Prompting, PullIsOwed, RunIsWhole
  <1>4. ASSUME NEW m \in Visible PROVE Owed(m)'
    <2>1. committed < m /\ m <= seen => check'
      BY <1>n, <1>2, <1>4
    <2> QED
      BY <1>2, <2>1 DEF Owed
  <1> QED
    BY <1>2, <1>3, <1>4 DEF PromptKept

LEMMA PromptStepKeeps ==
    ASSUME PromptIInv, PromptNext
    PROVE  PromptIInv'
  <1>0. ImIInv /\ CursorIInv
    BY DEF PromptIInv, ImIInv
  <1>1. ImIInv'
    BY <1>0, ImStepKeeps, PromptNextIsImNext
  <1>2. Moves /\ CursorTypeOK'
    BY <1>0, ImNextIsNext, PromptNextIsImNext, StepKeeps DEF Kept
  <1>3. ASSUME Launch \/ Accept \/ ReplyIsLost PROVE PromptKept
    <2>1. UNCHANGED <<cursorVars, readerVars, queueVars, pending>>
      BY <1>3 DEF Launch, Accept, ReplyIsLost
    <2> QED
      BY <2>1 DEF PromptIInv, PromptKept, Prompting, PullIsOwed, Owed, RunIsWhole, Visible,
         cursorVars, readerVars, queueVars
  <1>4. PromptKept
    BY <1>2, <1>3, PromptStores, PromptPollsKeep, NothingIsAnswered, PromptTurns, PromptStarts,
       PromptEnds, PromptDrops, PromptRestarts
       DEF PromptNext, Turns, Runs
  <1> QED
    BY <1>1, <1>4 DEF PromptKept, PromptIInv

LEMMA PromptInvariance == PromptSpec => []PromptIInv
  <1>1. Init => PromptIInv
    <2> SUFFICES ASSUME Init PROVE PromptIInv
      OBVIOUS
    <2>1. ImIInv
      BY ImInitHolds
    <2>2. History \in Nat /\ History <= History /\ ~ History < History
      BY CursorAssumption
    <2>3. \A m \in Visible : m \in Nat /\ m <= History
      <3>1. \A m \in Msgs : row[m] \in Shown => m <= History
        BY DEF Init, Shown
      <3> QED
        BY <3>1, CursorAssumption DEF Visible, Msgs
    <2>4. Prompting /\ PullIsOwed
      BY <2>2, <2>3 DEF Init, Prompting, PullIsOwed
    <2>5. \A m \in Visible : Owed(m) /\ RunIsWhole(m)
      BY <2>2, <2>3 DEF Init, Owed, RunIsWhole
    <2> QED
      BY <2>1, <2>4, <2>5 DEF PromptIInv
  <1>2. PromptIInv /\ UNCHANGED vars => PromptIInv'
    <2> SUFFICES ASSUME PromptIInv, UNCHANGED vars PROVE PromptIInv'
      OBVIOUS
    <2>1. ImIInv'
      BY ImStutterKeeps DEF PromptIInv
    <2> QED
      BY <2>1 DEF PromptIInv, Prompting, PullIsOwed, Owed, RunIsWhole, Visible,
         vars, cursorVars, readerVars, queueVars, runnerVars
  <1>3. PromptIInv /\ [PromptNext]_vars => PromptIInv'
    BY <1>2, PromptStepKeeps
  <1> QED
    BY <1>1, <1>3, PTL DEF PromptSpec

\* When nothing is under way in such a chat, a restart reads no message again.
THEOREM QuietIsAllCommitted == PromptSpec => []QuietIsCommitted
  <1>1. PromptIInv => QuietIsCommitted
    <2> SUFFICES ASSUME PromptIInv, Quiet, NEW m \in Visible, m <= seen, ~ m <= committed
                 PROVE  FALSE
      BY DEF QuietIsCommitted
    <2>1. pending = {} /\ batch["run"] = {}
      BY DEF PromptIInv, ImIInv, CursorIInv, DownIsEmpty, Shape, Quiet
    <2>2. m \in Nat /\ committed \in Nat
      BY CursorAssumption
         DEF Visible, PromptIInv, ImIInv, CursorIInv, CursorTypeOK, Msgs, Cursors
    <2>3. committed < m
      BY <2>2
    <2> QED
      BY <2>1, <2>3 DEF PromptIInv, Owed, Quiet
  <1> QED
    BY <1>1, PromptInvariance, PTL

\* A chat without commands is one of those that forget nothing.
LEMMA PromptChatIsAnImChat == PromptSpec => ImSpec
  <1>1. [PromptNext]_vars => [ImNext]_vars
    BY PromptNextIsImNext
  <1> QED
    BY <1>1, PTL DEF PromptSpec, ImSpec
===============================================================================
