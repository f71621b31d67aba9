--------------------- MODULE StatusListRevocationProofs ---------------------
(***************************************************************************)
(* No revocation is lost, and no bit is set that was not revoked or taken  *)
(* back, for any numbers of lists, pages, instances, ranges and            *)
(* invocations.  First the arithmetic of getRevocationPosition, then the   *)
(* types; Moves says what a step may do to pages, masks and what was read, *)
(* and the bits follow from it whichever action the step is; only the      *)
(* accounting of revocations looks at each action.                         *)
(***************************************************************************)
EXTENDS StatusListRevocation, TLAPS

----------------------------------------------------------------------------

(* What the provers are told of a product that has no constant factor.     *)
LEMMA ProductMonotonic ==
  ASSUME NEW a \in Int, NEW b \in Int, NEW k \in Nat, a <= b
  PROVE  a * k <= b * k
OBVIOUS

(* Euclidean division.                                                     *)
LEMMA DivMod ==
  ASSUME NEW n \in Nat, NEW k \in Nat \ {0}
  PROVE  /\ n \div k \in Nat /\ n % k \in 0..k - 1
         /\ n = (n \div k) * k + (n % k)
OBVIOUS

(* The quotient of a number below m * k is below m.                        *)
LEMMA DivLess ==
  ASSUME NEW n \in Nat, NEW k \in Nat \ {0}, NEW m \in Nat, n < m * k
  PROVE  n \div k \in 0..m - 1
<1>1. /\ n \div k \in Nat
      /\ (n \div k) * k <= n
  BY DivMod
<1>2. ASSUME m <= n \div k PROVE FALSE
  <2>1. m * k <= (n \div k) * k
    BY <1>1, <1>2, ProductMonotonic
  <2>2. QED
    BY <1>1, <2>1
<1>3. QED
  BY <1>1, <1>2

(* An index is put together again from its page, its word and its bit.     *)
LEMMA PositionOfIndex ==
  ASSUME NEW n \in 0..PageCount * PageBitsSize - 1
  PROVE  LET offset == n % PageBitsSize IN
         /\ n \div PageBitsSize \in 0..PageCount - 1
         /\ offset \div WordBits \in 0..PageBitsSize \div WordBits - 1
         /\ offset % WordBits \in 0..WordBits - 1
         /\ n = (n \div PageBitsSize) * PageBitsSize
                + (offset \div WordBits) * WordBits + (offset % WordBits)
<1> DEFINE offset == n % PageBitsSize
           words == PageBitsSize \div WordBits
<1>1. /\ PageBitsSize \in Nat \ {0} /\ PageCount \in Nat
      /\ WordBits \in Nat \ {0} /\ PageBitsSize % WordBits = 0
  BY SizesAssumption
<1>2. PageCount * PageBitsSize \in Nat
  BY <1>1
<1>3. n \in Nat /\ n < PageCount * PageBitsSize
  BY <1>2
<1>4. n \div PageBitsSize \in 0..PageCount - 1
  BY <1>1, <1>3, DivLess
<1>5. offset \in 0..PageBitsSize - 1
      /\ n = (n \div PageBitsSize) * PageBitsSize + offset
  BY <1>1, <1>3, DivMod
<1>6. words \in Nat /\ PageBitsSize = words * WordBits
  BY <1>1, DivMod
<1>7. offset \in Nat /\ offset < words * WordBits
  BY <1>1, <1>5, <1>6
<1> HIDE DEF offset, words
<1>8. /\ offset \div WordBits \in 0..words - 1
      /\ offset % WordBits \in 0..WordBits - 1
      /\ offset = (offset \div WordBits) * WordBits + (offset % WordBits)
  BY <1>1, <1>6, <1>7, DivLess, DivMod
<1>9. n = (n \div PageBitsSize) * PageBitsSize
          + ((offset \div WordBits) * WordBits + (offset % WordBits))
  BY <1>5, <1>8
<1>10. /\ (n \div PageBitsSize) * PageBitsSize \in Int
       /\ (offset \div WordBits) * WordBits \in Int
  BY <1>1, <1>4, <1>8
<1>11. n = (n \div PageBitsSize) * PageBitsSize
           + (offset \div WordBits) * WordBits + (offset % WordBits)
  BY <1>8, <1>9, <1>10
<1>12. QED
  BY <1>4, <1>8, <1>11 DEF offset, words

(* The position that getRevocationPosition computes lies inside the pages, *)
(* and stands for the binding it was computed from.                        *)
LEMMA BindingIsItsBit ==
  ASSUME NEW b \in Bindings
  PROVE  /\ PageOf(b) \in Documents /\ WordOffset(b) \in Words
         /\ BitPosition(b) \in 0..WordBits - 1
         /\ BindingOf(PageOf(b), WordOffset(b), BitPosition(b)) = b
<1>1. PICK l \in StatusLists, n \in 0..PageCount * PageBitsSize - 1 : b = <<l, n>>
  BY DEF Bindings, Indexes
<1>2. /\ PageOf(b) = <<l, n \div PageBitsSize>>
      /\ WordOffset(b) = (n % PageBitsSize) \div WordBits
      /\ BitPosition(b) = (n % PageBitsSize) % WordBits
  BY <1>1, Zenon DEF PageOf, WordOffset, BitPosition
<1>3. BindingOf(PageOf(b), WordOffset(b), BitPosition(b))
        = <<l, (n \div PageBitsSize) * PageBitsSize
               + ((n % PageBitsSize) \div WordBits) * WordBits
               + ((n % PageBitsSize) % WordBits)>>
  <2>1. \A p, w, bit : BindingOf(<<l, p>>, w, bit)
                         = <<l, p * PageBitsSize + w * WordBits + bit>>
    BY Zenon DEF BindingOf
  <2>2. QED
    BY <1>2, <2>1, Zenon
<1>4. /\ n \div PageBitsSize \in 0..PageCount - 1
      /\ (n % PageBitsSize) \div WordBits \in 0..PageBitsSize \div WordBits - 1
      /\ (n % PageBitsSize) % WordBits \in 0..WordBits - 1
      /\ n = (n \div PageBitsSize) * PageBitsSize
             + ((n % PageBitsSize) \div WordBits) * WordBits
             + ((n % PageBitsSize) % WordBits)
  BY PositionOfIndex
<1>5. BindingOf(PageOf(b), WordOffset(b), BitPosition(b)) = b
  BY <1>1, <1>3, <1>4, Zenon
<1>6. PageOf(b) \in Documents
  BY <1>2, <1>4 DEF Documents
<1>7. WordOffset(b) \in Words /\ BitPosition(b) \in 0..WordBits - 1
  BY <1>2, <1>4, Zenon DEF Words
<1>8. QED
  BY <1>5, <1>6, <1>7

----------------------------------------------------------------------------
(* A page that was not read is none that was.                              *)
LEMMA NotReadIsNoPage ==
  /\ NoMask \in WordsType
  /\ NotRead.etag = -1 /\ NotRead.words = NoMask
  /\ \A page \in Page : page # NotRead
BY DEF NotRead, NoMask, WordsType, Page

(* The masks of a batch are words for each page.                           *)
LEMMA GroupsAreMasks ==
  ASSUME NEW bindings \in SUBSET Bindings
  PROVE  GroupStatusBindingsByPageDocument(bindings) \in [Documents -> WordsType]
BY BindingIsItsBit DEF GroupStatusBindingsByPageDocument, WordsType

(* The words of a page with a mask applied are words.                      *)
LEMMA MaskedWordsAreWords ==
  ASSUME NEW words \in WordsType, NEW mask \in WordsType
  PROVE  ApplyRevocationWordMasks(words, mask) \in WordsType
BY DEF ApplyRevocationWordMasks, WordsType

(* The bindings of a batch are bindings.                                   *)
LEMMA BatchBindings ==
  ASSUME NEW documents \in SUBSET WalletInstances
  PROVE  GetStatusBindingsIfRevoked(documents) \in SUBSET Bindings
BY StatusAssumption DEF GetStatusBindingsIfRevoked

(* The types hold at first.                                                *)
LEMMA InitType == Init => TypeOK
<1> SUFFICES ASSUME Init PROVE TypeOK
  OBVIOUS
<1>1. /\ NoMask \in WordsType /\ NoMasks \in [Documents -> WordsType]
      /\ NothingRead \in [Documents -> Page \cup {NotRead}]
      /\ [etag |-> 0, words |-> NoMask] \in Page
  BY NotReadIsNoPage DEF NoMasks, NothingRead, Page
<1>2. /\ pages \in [Documents -> Page]
      /\ masks \in [Invocations -> [Documents -> WordsType]]
      /\ seen \in [Invocations -> [Documents -> Page \cup {NotRead}]]
  BY <1>1, Zenon DEF Init
<1>3. repeats \in 0..MaxRepeats
  BY StatusAssumption DEF Init
<1>4. /\ document \in [WalletInstances -> {"valid", "revoked"}]
      /\ feed \in SUBSET WalletInstances
      /\ batch \in [Invocations -> SUBSET WalletInstances]
      /\ owner \in [Invocations -> BOOLEAN]
      /\ skipped \in SUBSET WalletInstances
  BY Zenon DEF Init
<1>5. QED
  BY <1>2, <1>3, <1>4 DEF TypeOK

(* A page that is replaced is a page.                                      *)
LEMMA WritePageType ==
  ASSUME TypeOK, NEW v \in Invocations, NEW d \in Documents,
         seen[v][d] # NotRead, WritePage(v, d)
  PROVE  pages' \in [Documents -> Page]
<1>1. pages[d] \in Page /\ seen[v][d] \in Page /\ masks[v][d] \in WordsType
  BY DEF TypeOK
<1>2. ApplyRevocationWordMasks(seen[v][d].words, masks[v][d]) \in WordsType
  BY <1>1, MaskedWordsAreWords DEF Page
<1>3. pages[d].etag + 1 \in Nat
  BY <1>1 DEF Page
<1>4. [etag |-> pages[d].etag + 1,
       words |-> ApplyRevocationWordMasks(seen[v][d].words, masks[v][d])] \in Page
  BY <1>2, <1>3 DEF Page
<1>5. QED
  BY <1>4, Zenon DEF WritePage, TypeOK

(* Masks without those of a page are masks.                                *)
LEMMA UpdateIsDoneType ==
  ASSUME TypeOK, NEW v \in Invocations, NEW d \in Documents, UpdateIsDone(v, d)
  PROVE  masks' \in [Invocations -> [Documents -> WordsType]]
BY NotReadIsNoPage, Zenon DEF TypeOK, UpdateIsDone

(* A page that is forgotten leaves the type of the others.                 *)
LEMMA ForgetType ==
  ASSUME TypeOK, NEW v \in Invocations, NEW d \in Documents, Forget(v, d)
  PROVE  seen' \in [Invocations -> [Documents -> Page \cup {NotRead}]]
BY Zenon DEF TypeOK, Forget

(* Each action keeps the types.                                            *)
LEMMA StepType == TypeOK /\ [Next]_vars => TypeOK'
<1> SUFFICES ASSUME TypeOK, [Next]_vars PROVE TypeOK'
  OBVIOUS
<1>1. ASSUME NEW i \in WalletInstances, Revoke(i) PROVE TypeOK'
  BY <1>1 DEF Revoke, Changed, TypeOK, invocationVars
<1>2. ASSUME NEW i \in WalletInstances, RevokeAgain(i) PROVE TypeOK'
  BY <1>2, StatusAssumption DEF RevokeAgain, Changed, TypeOK, invocationVars
<1>3. ASSUME NEW v \in Invocations, NEW l \in Leases,
             NEW documents \in SUBSET Waiting(l), Deliver(v, l, documents)
      PROVE TypeOK'
  <2>1. documents \in SUBSET WalletInstances
    BY DEF Waiting, TypeOK
  <2>2. GroupStatusBindingsByPageDocument(GetStatusBindingsIfRevoked(documents))
          \in [Documents -> WordsType]
    BY <2>1, BatchBindings, GroupsAreMasks
  <2>3. masks' \in [Invocations -> [Documents -> WordsType]]
    BY <1>3, <2>2, Zenon DEF Deliver, TypeOK
  <2>4. /\ batch' \in [Invocations -> SUBSET WalletInstances]
        /\ feed' \in SUBSET WalletInstances
        /\ owner' \in [Invocations -> BOOLEAN]
    BY <1>3, <2>1, Zenon DEF Deliver, TypeOK
  <2>5. QED
    BY <1>3, <2>3, <2>4, Zenon DEF Deliver, TypeOK
<1>4. ASSUME NEW v \in Invocations, NEW d \in Documents, ReadPage(v, d)
      PROVE TypeOK'
  <2>1. masks' \in [Invocations -> [Documents -> WordsType]]
    BY <1>4, UpdateIsDoneType, Zenon DEF ReadPage, TypeOK
  <2>2. seen' \in [Invocations -> [Documents -> Page \cup {NotRead}]]
    <3> DEFINE Seen == Page \cup {NotRead}
    <3>1. pages[d] \in Seen /\ seen \in [Invocations -> [Documents -> Seen]]
      BY DEF TypeOK
    <3>2. UNCHANGED seen \/ seen' = [seen EXCEPT ![v][d] = pages[d]]
      BY <1>4, Zenon DEF ReadPage
    <3> HIDE DEF Seen
    <3>3. seen' \in [Invocations -> [Documents -> Seen]]
      <4>1. [seen EXCEPT ![v][d] = pages[d]] \in [Invocations -> [Documents -> Seen]]
        BY <3>1, Zenon
      <4>2. QED
        BY <3>1, <3>2, <4>1, Zenon
    <3>4. QED
      BY <3>3 DEF Seen
  <2>3. QED
    BY <1>4, <2>1, <2>2, Zenon DEF ReadPage, TypeOK
<1>5. ASSUME NEW v \in Invocations, NEW d \in Documents, ReplacePage(v, d)
      PROVE TypeOK'
  <2>1. /\ masks' \in [Invocations -> [Documents -> WordsType]]
        /\ pages' \in [Documents -> Page]
    BY <1>5, UpdateIsDoneType, WritePageType, Zenon DEF ReplacePage, TypeOK
  <2>2. seen' \in [Invocations -> [Documents -> Page \cup {NotRead}]]
    BY <1>5, ForgetType DEF ReplacePage
  <2>3. QED
    BY <1>5, <2>1, <2>2, Zenon DEF ReplacePage, TypeOK
<1>6. ASSUME NEW v \in Invocations, Checkpoint(v) PROVE TypeOK'
  BY <1>6, Zenon DEF Checkpoint, TypeOK
<1>7. ASSUME NEW v \in Invocations, NEW d \in Documents, FailUpdate(v, d)
      PROVE TypeOK'
  <2>1. /\ masks' \in [Invocations -> [Documents -> WordsType]]
        /\ seen' \in [Invocations -> [Documents -> Page \cup {NotRead}]]
    BY <1>7, UpdateIsDoneType, ForgetType DEF FailUpdate
  <2>2. pages' \in [Documents -> Page]
    BY <1>7, WritePageType, Zenon DEF FailUpdate, TypeOK
  <2>3. /\ batch' \in [Invocations -> SUBSET WalletInstances]
        /\ owner' \in [Invocations -> BOOLEAN]
        /\ skipped' \in SUBSET WalletInstances
    BY <1>7, Zenon DEF FailUpdate, TypeOK
  <2>4. QED
    BY <1>7, <2>1, <2>2, <2>3, Zenon DEF FailUpdate, TypeOK
<1>8. ASSUME NEW v \in Invocations, Redeliver(v),
             Crash(v) \/ UNCHANGED <<masks, seen>>
      PROVE TypeOK'
  <2>1. /\ masks' \in [Invocations -> [Documents -> WordsType]]
        /\ seen' \in [Invocations -> [Documents -> Page \cup {NotRead}]]
    <3>1. /\ NoMasks \in [Documents -> WordsType]
          /\ NothingRead \in [Documents -> Page \cup {NotRead}]
      BY NotReadIsNoPage, Zenon DEF NoMasks, NothingRead
    <3>2. QED
      BY <1>8, <3>1, Zenon DEF Crash, TypeOK
  <2>2. /\ batch' \in [Invocations -> SUBSET WalletInstances]
        /\ owner' \in [Invocations -> BOOLEAN]
        /\ feed' \in SUBSET WalletInstances
    BY <1>8, Zenon DEF Redeliver, TypeOK
  <2>3. repeats' \in 0..MaxRepeats
    BY <1>8, StatusAssumption DEF Redeliver, TypeOK
  <2>4. QED
    BY <1>8, <2>1, <2>2, <2>3, Zenon DEF Redeliver, TypeOK
<1>9. CASE UNCHANGED vars
  BY <1>9, Zenon DEF vars, invocationVars, TypeOK
<1>10. QED
  BY <1>1, <1>2, <1>3, <1>4, <1>5, <1>6, <1>7, <1>8, <1>9
  DEF Next, Update, DeliverRange, Crash, LoseLease

----------------------------------------------------------------------------
(* A page that was read with the current etag is the current one: what a   *)
(* conditional replace relies on.                                          *)
SeenIsCurrent ==
  \A v \in Invocations, d \in Documents :
    /\ seen[v][d].etag <= pages[d].etag
    /\ seen[v][d].etag = pages[d].etag => seen[v][d].words = pages[d].words

(* The bits of these words of page d belong to revoked instances.          *)
AllRevoked(d, words) ==
  \A w \in Words : \A bit \in words[w] : BindingOf(d, w, bit) \in RevokedBindings

(* So do all bits of the pages, and all that invocations hold.             *)
OnlyRevokedBits ==
  /\ \A d \in Documents : AllRevoked(d, pages[d].words)
  /\ \A v \in Invocations, d \in Documents :
       AllRevoked(d, masks[v][d]) /\ AllRevoked(d, seen[v][d].words)

(* The bit of instance i in the words of its page.                         *)
BitIn(i, words) == BitPosition(StatusOf[i]) \in words[WordOffset(StatusOf[i])]

(* Invocation v, which the feed waits for, has still to set it.            *)
HasToSet(v, i) ==
  owner[v] /\ i \in batch[v] /\ BitIn(i, masks[v][PageOf(StatusOf[i])])

(* EveryRevocationAccounted with the bit that an invocation has to set, as *)
(* a batch alone does not say that it will: this makes it inductive.       *)
Accounted(i) ==
  \/ BitIn(i, pages[PageOf(StatusOf[i])].words)
  \/ i \in feed
  \/ \E v \in Invocations : HasToSet(v, i)
  \/ i \in skipped

(* Every revocation is accounted for in this sense.                        *)
RevocationsAccounted ==
  \A i \in Revoked : StatusOf[i] = NoStatus \/ Accounted(i)

(* The inductive invariant.                                                *)
RevocationInv ==
  TypeOK /\ SeenIsCurrent /\ OnlyRevokedBits /\ RevocationsAccounted

(* It holds at first: no bit is set and none is revoked.                   *)
LEMMA InitRevocation == Init => RevocationInv
<1> SUFFICES ASSUME Init PROVE RevocationInv
  OBVIOUS
<1>1. TypeOK
  BY InitType
<1>2. \A v \in Invocations, d \in Documents :
        /\ pages[d] = [etag |-> 0, words |-> NoMask]
        /\ seen[v][d] = NotRead /\ masks[v][d] = NoMask
  BY Zenon DEF Init, NothingRead, NoMasks
<1>3. SeenIsCurrent
  BY <1>2, NotReadIsNoPage DEF SeenIsCurrent
<1>4. \A d \in Documents : AllRevoked(d, NoMask)
  BY DEF AllRevoked, NoMask
<1>5. OnlyRevokedBits
  <2>1. \A d \in Documents : pages[d].words = NoMask
    BY DEF Init
  <2>2. \A v \in Invocations, d \in Documents :
          masks[v][d] = NoMask /\ seen[v][d].words = NoMask
    BY <1>2, NotReadIsNoPage, Zenon
  <2>3. QED
    BY <1>4, <2>1, <2>2, Zenon DEF OnlyRevokedBits
<1>6. Revoked = {}
  BY DEF Init, Revoked
<1>7. QED
  BY <1>1, <1>3, <1>5, <1>6 DEF RevocationInv, RevocationsAccounted

----------------------------------------------------------------------------
(* The update of invocation v replaces page d, with the etag it has read.  *)
WrittenBy(v, d) ==
  /\ seen[v][d] # NotRead /\ pages[d].etag = seen[v][d].etag
  /\ pages'[d] = [etag |-> pages[d].etag + 1,
                  words |-> ApplyRevocationWordMasks(seen[v][d].words, masks[v][d])]

(* What any step may do: instances stay revoked, a page is replaced only   *)
(* under the current etag, an invocation gets the masks of a batch or      *)
(* drops some, and reads pages as they are.                                *)
Moves ==
  /\ \A i \in WalletInstances :
       document[i] = "revoked" => document'[i] = "revoked"
  /\ \A d \in Documents :
       pages'[d] = pages[d] \/ \E v \in Invocations : WrittenBy(v, d)
  /\ \A v \in Invocations, d \in Documents :
       \/ masks'[v][d] \in {masks[v][d], NoMask}
       \/ \E documents \in SUBSET WalletInstances :
            masks'[v][d] = GroupStatusBindingsByPageDocument(
                             GetStatusBindingsIfRevoked(documents))[d]
  /\ \A v \in Invocations, d \in Documents :
       \/ seen'[v][d] \in {seen[v][d], NotRead}
       \/ (seen'[v][d] = pages[d] /\ pages' = pages)

(* A function of two arguments that changes at one point.                  *)
LEMMA PointMoves ==
  ASSUME NEW f, NEW g, NEW S, f \in [Invocations -> [Documents -> S]],
         NEW v \in Invocations, NEW d \in Documents, NEW new,
         g \in {f, [f EXCEPT ![v][d] = new]}
  PROVE  \A u \in Invocations, e \in Documents :
           g[u][e] = f[u][e] \/ (g[u][e] = new /\ e = d)
<1> SUFFICES ASSUME NEW u \in Invocations, NEW e \in Documents
             PROVE  g[u][e] = f[u][e] \/ (g[u][e] = new /\ e = d)
  OBVIOUS
<1>1. CASE g = f
  BY <1>1
<1>2. CASE g = [f EXCEPT ![v][d] = new]
  BY <1>2
<1>3. QED
  BY <1>1, <1>2

(* Each action does no more than that.                                     *)
LEMMA StepMoves == TypeOK /\ [Next]_vars => Moves
<1> SUFFICES ASSUME TypeOK, [Next]_vars PROVE Moves
  OBVIOUS
<1>1. ASSUME NEW i \in WalletInstances, Revoke(i) \/ RevokeAgain(i) PROVE Moves
  BY <1>1 DEF Revoke, RevokeAgain, Changed, TypeOK, invocationVars, Moves
<1>2. ASSUME NEW v \in Invocations, NEW l \in Leases,
             NEW documents \in SUBSET Waiting(l), Deliver(v, l, documents)
      PROVE Moves
  <2>1. documents \in SUBSET WalletInstances
    BY DEF Waiting, TypeOK
  <2>2. \A u \in Invocations, d \in Documents :
          \/ masks'[u][d] = masks[u][d]
          \/ masks'[u][d] = GroupStatusBindingsByPageDocument(
                              GetStatusBindingsIfRevoked(documents))[d]
    BY <1>2, Zenon DEF Deliver, TypeOK
  <2>3. UNCHANGED <<document, pages, seen>>
    BY <1>2 DEF Deliver
  <2>4. QED
    BY <2>1, <2>2, <2>3, Zenon DEF Moves
<1>3. ASSUME NEW v \in Invocations, NEW d \in Documents, ReadPage(v, d)
      PROVE Moves
  <2>1. \A u \in Invocations, e \in Documents :
          /\ masks'[u][e] \in {masks[u][e], NoMask}
          /\ seen'[u][e] \in {seen[u][e], pages[e]}
    <3>1. /\ masks' \in {masks, [masks EXCEPT ![v][d] = NoMask]}
          /\ seen' \in {seen, [seen EXCEPT ![v][d] = pages[d]]}
      BY <1>3, Zenon DEF ReadPage, UpdateIsDone
    <3>2. \A u \in Invocations, e \in Documents :
            masks'[u][e] = masks[u][e] \/ (masks'[u][e] = NoMask /\ e = d)
      BY <3>1, PointMoves DEF TypeOK
    <3>3. \A u \in Invocations, e \in Documents :
            seen'[u][e] = seen[u][e] \/ (seen'[u][e] = pages[d] /\ e = d)
      BY <3>1, PointMoves DEF TypeOK
    <3>4. QED
      BY <3>2, <3>3
  <2>2. UNCHANGED <<document, pages>>
    BY <1>3 DEF ReadPage
  <2>3. QED
    BY <2>1, <2>2, Zenon DEF Moves
<1>4. ASSUME NEW v \in Invocations, NEW d \in Documents,
             masks' \in {masks, [masks EXCEPT ![v][d] = NoMask]},
             Forget(v, d), UNCHANGED document,
             \/ UNCHANGED pages
             \/ /\ seen[v][d] # NotRead /\ pages[d].etag = seen[v][d].etag
                /\ WritePage(v, d)
      PROVE Moves
  <2>1. \A u \in Invocations, e \in Documents :
          /\ masks'[u][e] \in {masks[u][e], NoMask}
          /\ seen'[u][e] \in {seen[u][e], NotRead}
    <3>1. \A u \in Invocations, e \in Documents :
            masks'[u][e] = masks[u][e] \/ (masks'[u][e] = NoMask /\ e = d)
      BY <1>4, PointMoves DEF TypeOK
    <3>2. \A u \in Invocations, e \in Documents :
            seen'[u][e] = seen[u][e] \/ (seen'[u][e] = NotRead /\ e = d)
      BY <1>4, PointMoves DEF TypeOK, Forget
    <3>3. QED
      BY <3>1, <3>2, Zenon
  <2>2. \A e \in Documents :
          pages'[e] = pages[e] \/ \E u \in Invocations : WrittenBy(u, e)
    BY <1>4, Zenon DEF WritePage, WrittenBy, TypeOK
  <2>3. QED
    BY <1>4, <2>1, <2>2, Zenon DEF Moves
<1>5. ASSUME NEW v \in Invocations, NEW d \in Documents,
             ReplacePage(v, d) \/ FailUpdate(v, d)
      PROVE Moves
  BY <1>4, <1>5, Zenon DEF ReplacePage, FailUpdate, UpdateIsDone
<1>6. ASSUME NEW v \in Invocations, Checkpoint(v) \/ LoseLease(v) PROVE Moves
  BY <1>6, Zenon DEF Checkpoint, LoseLease, Redeliver, Moves
<1>7. ASSUME NEW v \in Invocations, Crash(v) PROVE Moves
  <2>1. \A u \in Invocations, e \in Documents :
          /\ masks'[u][e] \in {masks[u][e], NoMask}
          /\ seen'[u][e] \in {seen[u][e], NotRead}
    BY <1>7, Zenon DEF Crash, NoMasks, NothingRead, TypeOK
  <2>2. UNCHANGED <<document, pages>>
    BY <1>7 DEF Crash, Redeliver
  <2>3. QED
    BY <2>1, <2>2, Zenon DEF Moves
<1>8. CASE UNCHANGED vars
  BY <1>8, Zenon DEF vars, invocationVars, Moves
<1>9. QED
  BY <1>1, <1>2, <1>3, <1>5, <1>6, <1>7, <1>8 DEF Next, Update, DeliverRange

(* A replace under the current etag adds the mask to the current words.    *)
LEMMA WrittenPage ==
  ASSUME TypeOK, SeenIsCurrent, NEW v \in Invocations, NEW d \in Documents,
         WrittenBy(v, d)
  PROVE  /\ pages'[d].etag = pages[d].etag + 1
         /\ \A w \in Words : pages'[d].words[w] = pages[d].words[w] \cup masks[v][d][w]
<1>1. pages'[d].etag = pages[d].etag + 1
  BY DEF WrittenBy
<1>2. pages'[d].words = ApplyRevocationWordMasks(pages[d].words, masks[v][d])
  <2>1. seen[v][d].words = pages[d].words
    BY DEF WrittenBy, SeenIsCurrent
  <2>2. QED
    BY <2>1 DEF WrittenBy
<1>3. QED
  BY <1>1, <1>2 DEF ApplyRevocationWordMasks

(* Etags are never used twice.                                             *)
LEMMA MovesKeepSeenCurrent ==
  ASSUME TypeOK, SeenIsCurrent, Moves
  PROVE  SeenIsCurrent'
<1> SUFFICES ASSUME NEW v \in Invocations, NEW d \in Documents
             PROVE  /\ seen'[v][d].etag <= pages'[d].etag
                    /\ seen'[v][d].etag = pages'[d].etag
                         => seen'[v][d].words = pages'[d].words
  BY DEF SeenIsCurrent
<1>1. pages[d].etag \in Nat
  BY DEF TypeOK, Page
<1>2. /\ pages'[d].etag \in Nat
      /\ pages'[d] = pages[d] \/ pages'[d].etag = pages[d].etag + 1
  BY <1>1, WrittenPage DEF Moves
<1>3. CASE seen'[v][d] = seen[v][d]
  <2>1. /\ seen[v][d].etag <= pages[d].etag
        /\ seen[v][d].etag = pages[d].etag => seen[v][d].words = pages[d].words
    BY DEF SeenIsCurrent
  <2>2. seen[v][d].etag \in Int
    BY NotReadIsNoPage DEF TypeOK, Page
  <2>3. CASE pages'[d] = pages[d]
    BY <1>3, <2>1, <2>3
  <2>4. CASE pages'[d].etag = pages[d].etag + 1
    BY <1>1, <1>3, <2>1, <2>2, <2>4
  <2>5. QED
    BY <1>2, <2>3, <2>4
<1>4. CASE seen'[v][d] = NotRead
  BY <1>2, <1>4, NotReadIsNoPage
<1>5. CASE seen'[v][d] = pages[d] /\ pages' = pages
  BY <1>1, <1>5
<1>6. QED
  BY <1>3, <1>4, <1>5, Zenon DEF Moves

(* The masks of a batch hold bits of its revoked instances only.           *)
LEMMA GroupIsRevoked ==
  ASSUME NEW documents \in SUBSET WalletInstances, NEW d \in Documents
  PROVE  AllRevoked(d, GroupStatusBindingsByPageDocument(
                         GetStatusBindingsIfRevoked(documents))[d])
<1> DEFINE bindings == GetStatusBindingsIfRevoked(documents)
<1>1. bindings \in SUBSET Bindings /\ bindings \subseteq RevokedBindings
  BY BatchBindings DEF GetStatusBindingsIfRevoked, RevokedBindings, Revoked
<1> HIDE DEF bindings
<1>2. ASSUME NEW w \in Words,
             NEW bit \in GroupStatusBindingsByPageDocument(bindings)[d][w]
      PROVE  BindingOf(d, w, bit) \in RevokedBindings
  <2>1. PICK b \in bindings :
          PageOf(b) = d /\ WordOffset(b) = w /\ BitPosition(b) = bit
    BY <1>2 DEF GroupStatusBindingsByPageDocument
  <2>2. BindingOf(d, w, bit) = b
    BY <1>1, <2>1, BindingIsItsBit
  <2>3. QED
    BY <1>1, <2>2
<1>3. QED
  BY <1>2 DEF AllRevoked, bindings

(* Bits go from batches to masks to pages, and all are of revoked          *)
(* instances.                                                              *)
LEMMA MovesKeepRevokedBits ==
  ASSUME TypeOK, SeenIsCurrent, OnlyRevokedBits, Moves
  PROVE  OnlyRevokedBits'
<1>1. RevokedBindings \subseteq RevokedBindings'
  BY DEF Moves, RevokedBindings, Revoked
<1>2. ASSUME NEW d \in Documents, NEW words, AllRevoked(d, words)
      PROVE  \A w \in Words : \A bit \in words[w] :
               BindingOf(d, w, bit) \in RevokedBindings'
  BY <1>1, <1>2 DEF AllRevoked
<1>3. ASSUME NEW d \in Documents PROVE AllRevoked(d, pages[d].words)'
  <2>1. CASE pages'[d] = pages[d]
    BY <1>2, <2>1 DEF AllRevoked, OnlyRevokedBits
  <2>2. ASSUME NEW v \in Invocations, WrittenBy(v, d)
        PROVE  AllRevoked(d, pages[d].words)'
    <3>1. \A w \in Words :
            pages'[d].words[w] = pages[d].words[w] \cup masks[v][d][w]
      BY <2>2, WrittenPage
    <3>2. AllRevoked(d, pages[d].words) /\ AllRevoked(d, masks[v][d])
      BY DEF OnlyRevokedBits
    <3>3. QED
      BY <1>1, <3>1, <3>2 DEF AllRevoked
  <2>3. QED
    BY <2>1, <2>2 DEF Moves
<1>4. ASSUME NEW v \in Invocations, NEW d \in Documents
      PROVE  AllRevoked(d, masks[v][d])' /\ AllRevoked(d, seen[v][d].words)'
  <2>1. /\ AllRevoked(d, masks[v][d]) /\ AllRevoked(d, seen[v][d].words)
        /\ AllRevoked(d, pages[d].words) /\ AllRevoked(d, NoMask)
    BY DEF OnlyRevokedBits, AllRevoked, NoMask
  <2>2. AllRevoked(d, masks[v][d])'
    <3>1. AllRevoked(d, masks'[v][d])
      BY <2>1, GroupIsRevoked DEF Moves
    <3>2. QED
      BY <1>2, <3>1 DEF AllRevoked
  <2>3. AllRevoked(d, seen[v][d].words)'
    <3>1. AllRevoked(d, seen'[v][d].words)
      BY <2>1, NotReadIsNoPage DEF Moves
    <3>2. QED
      BY <1>2, <3>1 DEF AllRevoked
  <2>4. QED
    BY <2>2, <2>3
<1>5. QED
  BY <1>3, <1>4 DEF OnlyRevokedBits

----------------------------------------------------------------------------
(* What stays accounted for: a page only gains bits.                       *)
LEMMA BitsStay ==
  ASSUME TypeOK, SeenIsCurrent, Moves, NEW d \in Documents, NEW w \in Words
  PROVE  pages[d].words[w] \subseteq pages'[d].words[w]
<1>1. CASE pages'[d] = pages[d]
  BY <1>1
<1>2. ASSUME NEW v \in Invocations, WrittenBy(v, d)
      PROVE  pages[d].words[w] \subseteq pages'[d].words[w]
  BY <1>2, WrittenPage
<1>3. QED
  BY <1>1, <1>2 DEF Moves

(* What an invocation still has to set of an instance, as a bit.           *)
LEMMA BitOfInstance ==
  ASSUME NEW i \in WalletInstances, StatusOf[i] # NoStatus
  PROVE  LET b == StatusOf[i] IN
         /\ b \in Bindings /\ PageOf(b) \in Documents /\ WordOffset(b) \in Words
BY StatusAssumption, BindingIsItsBit

(* A revoked instance of a batch has its bit in the masks of its page.     *)
LEMMA DeliveredHasToBeSet ==
  ASSUME NEW documents \in SUBSET WalletInstances, NEW i \in documents,
         i \in Revoked, StatusOf[i] # NoStatus
  PROVE  BitIn(i, GroupStatusBindingsByPageDocument(
                    GetStatusBindingsIfRevoked(documents))[PageOf(StatusOf[i])])
<1>1. StatusOf[i] \in GetStatusBindingsIfRevoked(documents)
  BY DEF GetStatusBindingsIfRevoked, Revoked
<1>2. QED
  BY <1>1, BitOfInstance DEF BitIn, GroupStatusBindingsByPageDocument

(* An invocation that is done has no bit to set.                           *)
LEMMA NoBitInNoMask ==
  ASSUME NEW i \in WalletInstances, StatusOf[i] # NoStatus
  PROVE  ~BitIn(i, NoMask)
BY BitOfInstance DEF BitIn, NoMask

(* A step that takes the bit of an instance from an invocation has set it  *)
(* or gives the instance to the feed or to skipped.                        *)
LEMMA StepKeepsAccounted ==
  ASSUME TypeOK, SeenIsCurrent, Moves, [Next]_vars,
         NEW i \in Revoked, StatusOf[i] # NoStatus, Accounted(i)
  PROVE  Accounted(i)'
<1> DEFINE p == PageOf(StatusOf[i])
           w == WordOffset(StatusOf[i])
<1>1. i \in WalletInstances
  BY DEF Revoked
<1>2. p \in Documents /\ w \in Words
  BY <1>1, BitOfInstance
<1>3. BitIn(i, pages[p].words) => Accounted(i)'
  BY <1>2, BitsStay DEF BitIn, Accounted
<1>4. ASSUME feed \subseteq feed', skipped \subseteq skipped',
             \A v \in Invocations : HasToSet(v, i) => HasToSet(v, i)' \/ Accounted(i)'
      PROVE  Accounted(i)'
  BY <1>3, <1>4 DEF Accounted
<1>5. ASSUME NEW j \in WalletInstances, Revoke(j) \/ RevokeAgain(j)
      PROVE  Accounted(i)'
  <2>1. /\ feed \subseteq feed' /\ skipped' = skipped
        /\ UNCHANGED <<owner, batch, masks>>
    BY <1>5 DEF Revoke, RevokeAgain, Changed, invocationVars
  <2>2. QED
    BY <1>4, <2>1 DEF HasToSet, BitIn
<1>6. ASSUME NEW v \in Invocations, NEW l \in Leases,
             NEW documents \in SUBSET Waiting(l), Deliver(v, l, documents)
      PROVE  Accounted(i)'
  <2>1. documents \in SUBSET WalletInstances
    BY DEF Waiting, TypeOK
  <2>2. /\ feed' = feed \ documents /\ skipped' = skipped
        /\ ~owner[v] /\ owner'[v] /\ batch'[v] = documents
        /\ masks'[v] = GroupStatusBindingsByPageDocument(
                         GetStatusBindingsIfRevoked(documents))
        /\ \A u \in Invocations : u # v =>
             /\ owner'[u] = owner[u] /\ batch'[u] = batch[u] /\ masks'[u] = masks[u]
    BY <1>6, Zenon DEF Deliver, Idle, TypeOK
  <2>3. i \in documents => HasToSet(v, i)'
    BY <1>1, <2>1, <2>2, DeliveredHasToBeSet, Zenon DEF HasToSet, BitIn
  <2>4. \A u \in Invocations : HasToSet(u, i) => HasToSet(u, i)'
    BY <2>2, Zenon DEF HasToSet, BitIn
  <2>5. QED
    BY <1>3, <2>2, <2>3, <2>4 DEF Accounted
<1>7. ASSUME NEW v \in Invocations, NEW d \in Documents,
             masks' \in {masks, [masks EXCEPT ![v][d] = NoMask]},
             masks'[v][d] = masks[v][d] \/
             \A x \in Words : masks[v][d][x] \subseteq pages'[d].words[x],
             UNCHANGED <<feed, skipped, owner, batch>>
      PROVE  Accounted(i)'
  <2>1. ASSUME NEW u \in Invocations, HasToSet(u, i)
        PROVE  HasToSet(u, i)' \/ Accounted(i)'
    <3>1. CASE masks'[u][p] = masks[u][p]
      BY <1>7, <2>1, <3>1 DEF HasToSet, BitIn
    <3>2. CASE u = v /\ p = d /\ \A x \in Words : masks[v][d][x] \subseteq pages'[d].words[x]
      BY <1>2, <2>1, <3>2 DEF HasToSet, BitIn, Accounted
    <3>3. masks'[u][p] = masks[u][p] \/ (u = v /\ p = d)
      BY <1>2, <1>7 DEF TypeOK
    <3>4. QED
      BY <1>7, <3>1, <3>2, <3>3
  <2>2. QED
    BY <1>4, <1>7, <2>1
<1>8. ASSUME NEW v \in Invocations, NEW d \in Documents, ReadPage(v, d)
      PROVE  Accounted(i)'
  <2>1. /\ UNCHANGED <<pages, feed, skipped, owner, batch>>
        /\ masks' \in {masks, [masks EXCEPT ![v][d] = NoMask]}
    BY <1>8, Zenon DEF ReadPage, UpdateIsDone
  <2>2. \/ masks' = masks
        \/ ApplyRevocationWordMasks(pages[d].words, masks[v][d]) = pages[d].words
    BY <1>8, Zenon DEF ReadPage
  <2>3. \/ masks'[v][d] = masks[v][d]
        \/ \A x \in Words : masks[v][d][x] \subseteq pages'[d].words[x]
    <3>1. CASE masks' = masks
      BY <3>1
    <3>2. ASSUME ApplyRevocationWordMasks(pages[d].words, masks[v][d]) = pages[d].words,
                 NEW x \in Words
          PROVE  masks[v][d][x] \subseteq pages'[d].words[x]
      <4>1. pages[d].words[x] = pages[d].words[x] \cup masks[v][d][x]
        BY <3>2, Zenon DEF ApplyRevocationWordMasks
      <4>2. QED
        BY <2>1, <4>1
    <3>3. QED
      BY <2>2, <3>1, <3>2
  <2>4. QED
    BY <1>7, <2>1, <2>3
<1>9. ASSUME NEW v \in Invocations, NEW d \in Documents, ReplacePage(v, d)
      PROVE  Accounted(i)'
  <2>1. /\ UNCHANGED <<feed, skipped, owner, batch>>
        /\ masks' \in {masks, [masks EXCEPT ![v][d] = NoMask]}
    BY <1>9, Zenon DEF ReplacePage, UpdateIsDone
  <2>2. masks' = masks \/ WrittenBy(v, d)
    BY <1>9, Zenon DEF ReplacePage, WritePage, WrittenBy, TypeOK
  <2>3. \/ masks'[v][d] = masks[v][d]
        \/ \A x \in Words : masks[v][d][x] \subseteq pages'[d].words[x]
    BY <2>2, WrittenPage
  <2>4. QED
    BY <1>7, <2>1, <2>3
<1>10. ASSUME NEW v \in Invocations, Checkpoint(v) PROVE Accounted(i)'
  <2>1. /\ UNCHANGED <<feed, skipped, masks>>
        /\ masks[v] = NoMasks
        /\ \A u \in Invocations : u # v => owner'[u] = owner[u] /\ batch'[u] = batch[u]
    BY <1>10, Zenon DEF Checkpoint, TypeOK
  <2>2. ~HasToSet(v, i)
    BY <1>1, <1>2, <2>1, NoBitInNoMask DEF HasToSet, NoMasks
  <2>3. \A u \in Invocations : HasToSet(u, i) => HasToSet(u, i)'
    BY <2>1, <2>2 DEF HasToSet, BitIn
  <2>4. QED
    BY <1>4, <2>1, <2>3
<1>11. ASSUME NEW v \in Invocations,
              batch[v] \subseteq feed' \cup skipped',
              feed \subseteq feed', skipped \subseteq skipped',
              \A u \in Invocations : u # v =>
                owner'[u] = owner[u] /\ batch'[u] = batch[u] /\ masks'[u] = masks[u]
       PROVE  Accounted(i)'
  <2>1. HasToSet(v, i) => Accounted(i)'
    BY <1>11 DEF HasToSet, Accounted
  <2>2. \A u \in Invocations : u # v => (HasToSet(u, i) => HasToSet(u, i)')
    BY <1>11 DEF HasToSet, BitIn
  <2>3. QED
    BY <1>4, <1>11, <2>1, <2>2
<1>12. ASSUME NEW v \in Invocations, NEW d \in Documents, FailUpdate(v, d)
       PROVE  Accounted(i)'
  <2>1. /\ feed' = feed /\ skipped' = skipped \cup batch[v]
        /\ \A u \in Invocations : u # v =>
             owner'[u] = owner[u] /\ batch'[u] = batch[u] /\ masks'[u] = masks[u]
    BY <1>12, Zenon DEF FailUpdate, UpdateIsDone, TypeOK
  <2>2. QED
    BY <1>11, <2>1
<1>13. ASSUME NEW v \in Invocations, Crash(v) \/ LoseLease(v) PROVE Accounted(i)'
  <2>1. /\ feed' = feed \cup batch[v] /\ skipped' = skipped
        /\ \A u \in Invocations : u # v =>
             owner'[u] = owner[u] /\ batch'[u] = batch[u] /\ masks'[u] = masks[u]
    BY <1>13, Zenon DEF Crash, LoseLease, Redeliver, TypeOK
  <2>2. QED
    BY <1>11, <2>1
<1>14. CASE UNCHANGED vars
  BY <1>4, <1>14 DEF vars, invocationVars, HasToSet, BitIn
<1>15. QED
  BY <1>5, <1>6, <1>8, <1>9, <1>10, <1>12, <1>13, <1>14
  DEF Next, Update, DeliverRange

(* Each step keeps the invariant; an instance that is revoked by the step  *)
(* is in the feed.                                                         *)
LEMMA StepRevocation == RevocationInv /\ [Next]_vars => RevocationInv'
<1> SUFFICES ASSUME RevocationInv, [Next]_vars PROVE RevocationInv'
  OBVIOUS
<1>1. TypeOK' /\ Moves
  BY StepType, StepMoves DEF RevocationInv
<1>2. SeenIsCurrent' /\ OnlyRevokedBits'
  BY <1>1, MovesKeepSeenCurrent, MovesKeepRevokedBits DEF RevocationInv
<1>3. ASSUME NEW i \in Revoked', StatusOf[i] # NoStatus PROVE Accounted(i)'
  <2>1. CASE i \in Revoked
    BY <1>1, <1>3, <2>1, StepKeepsAccounted DEF RevocationInv, RevocationsAccounted
  <2>2. CASE i \notin Revoked
    <3>1. i \in WalletInstances /\ document[i] # "revoked" /\ document'[i] = "revoked"
      BY <2>2 DEF Revoked
    <3>2. PICK j \in WalletInstances : Revoke(j)
      BY <3>1 DEF Next, DeliverRange, Deliver, Update, ReadPage, ReplacePage,
         Checkpoint, Crash, LoseLease, Redeliver, FailUpdate, RevokeAgain, vars
    <3>3. j = i /\ i \in feed'
      BY <3>1, <3>2 DEF Revoke, Changed, RevocationInv, TypeOK
    <3>4. QED
      BY <3>3 DEF Accounted
  <2>3. QED
    BY <2>1, <2>2
<1>4. QED
  BY <1>1, <1>2, <1>3 DEF RevocationInv, RevocationsAccounted

(* The types, the etags, the bits and the accounting, in every state.      *)
THEOREM RevocationCorrect == Spec => []RevocationInv
BY InitRevocation, StepRevocation, PTL DEF Spec

(* The bit at the position of a binding is the bit of the binding.         *)
LEMMA AccountedIsEnough == RevocationInv => EveryRevocationAccounted
<1> SUFFICES ASSUME RevocationInv, NEW i \in Revoked, StatusOf[i] # NoStatus,
                    BitIn(i, pages[PageOf(StatusOf[i])].words)
             PROVE  IsSet(i)
  BY DEF EveryRevocationAccounted, RevocationInv, RevocationsAccounted,
     Accounted, HasToSet
<1>1. i \in WalletInstances
  BY DEF Revoked
<1>2. QED
  BY <1>1, BitOfInstance, BindingIsItsBit DEF IsSet, SetBits, BitIn

(* A revocation is never lost between the instance and its bit, for any    *)
(* number of instances, lists, pages, words, ranges and invocations.       *)
THEOREM RevocationEveryRevocationAccounted == Spec => []EveryRevocationAccounted
BY RevocationCorrect, AccountedIsEnough, PTL

----------------------------------------------------------------------------
(* The refinement of StatusListBits.                                       *)
LEMMA SetBitsAreRevoked ==
  ASSUME OnlyRevokedBits
  PROVE  SetBits \subseteq RevokedBindings
BY DEF SetBits, OnlyRevokedBits, AllRevoked

(* No step takes a bit from it.                                            *)
LEMMA SetBitsGrow ==
  ASSUME TypeOK, SeenIsCurrent, Moves
  PROVE  SetBits \subseteq SetBits'
<1> SUFFICES ASSUME NEW b \in SetBits PROVE b \in SetBits'
  OBVIOUS
<1>1. PICK d \in Documents, w \in Words :
        \E bit \in pages[d].words[w] : b = BindingOf(d, w, bit)
  BY DEF SetBits
<1>2. \E bit \in pages'[d].words[w] : b = BindingOf(d, w, bit)
  BY <1>1, BitsStay
<1>3. b \in Bindings
  BY DEF SetBits
<1>4. QED
  BY <1>2, <1>3 DEF SetBits

(* The initial states map to the initial state of StatusListBits.          *)
LEMMA InitRefines == Init => Bits!Init
<1> SUFFICES ASSUME Init PROVE Bits!Init
  OBVIOUS
<1>1. RevokedBindings = {}
  BY DEF Init, RevokedBindings, Revoked
<1>2. SetBits = {}
  BY <1>1, InitRevocation, SetBitsAreRevoked DEF RevocationInv
<1>3. QED
  BY <1>1, <1>2 DEF Bits!Init

(* Every step maps to one of StatusListBits or to a stutter.               *)
LEMMA StepRefines ==
  RevocationInv /\ [Next]_vars => [Bits!Next]_<<RevokedBindings, SetBits>>
<1> SUFFICES ASSUME RevocationInv, [Next]_vars
             PROVE  [Bits!Next]_<<RevokedBindings, SetBits>>
  OBVIOUS
<1>1. TypeOK /\ SeenIsCurrent /\ Moves /\ OnlyRevokedBits'
  BY StepMoves, StepRevocation DEF RevocationInv
<1>2. ASSUME NEW i \in WalletInstances, Revoke(i)
      PROVE  Bits!Revoke
  <2>1. RevokedBindings \subseteq RevokedBindings'
    BY <1>1 DEF Moves, RevokedBindings, Revoked
  <2>2. RevokedBindings' \subseteq Bindings
    BY StatusAssumption DEF RevokedBindings, Revoked
  <2>3. SetBits' = SetBits
    BY <1>2 DEF Revoke, SetBits
  <2>4. QED
    BY <2>1, <2>2, <2>3 DEF Bits!Revoke
<1>3. CASE document' = document
  <2>1. RevokedBindings' = RevokedBindings
    BY <1>3 DEF RevokedBindings, Revoked
  <2>2. SetBits \subseteq SetBits' /\ SetBits' \subseteq RevokedBindings'
    BY <1>1, SetBitsGrow DEF SetBits, OnlyRevokedBits, AllRevoked
  <2>3. QED
    BY <2>1, <2>2 DEF Bits!SetBits, Bits!Next
<1>4. document' = document \/ \E i \in WalletInstances : Revoke(i)
  BY DEF Next, DeliverRange, Deliver, Update, ReadPage, ReplacePage,
     Checkpoint, Crash, LoseLease, Redeliver, FailUpdate, RevokeAgain, vars
<1>5. QED
  BY <1>2, <1>3, <1>4 DEF Bits!Next

(* The handlers and the pages implement the bit string they promise: the   *)
(* bit of an instance is set only when it was revoked, and stays set.      *)
THEOREM RevocationBitsOnlySetForRevoked == Spec => BitsOnlySetForRevoked
BY RevocationCorrect, InitRefines, StepRefines, PTL
DEF Spec, BitsOnlySetForRevoked, Bits!Spec
=============================================================================
