---------------------------- MODULE CatalogProofs ----------------------------
(***************************************************************************)
(* The safety of Catalog for any subjects, books, tests and requests.      *)
(*                                                                         *)
(* The invariants lean on what a request in flight may still do to the     *)
(* rows (Sound): a set_subjects deletes links that are there and inserts   *)
(* none that is, what it inserts cannot lose its book or subject before it *)
(* commits, and a checked row fits its book for as long as both of them    *)
(* exist.  No two requests hold a row (LocksExclusive), which is what      *)
(* keeps a commit from bringing in a link that another one is inserting.   *)
(* On these rests the refinement of CatalogContract: a set_subjects takes  *)
(* effect in its COMMIT, and its statements are invisible.                 *)
(***************************************************************************)
EXTENDS Catalog, TLAPS

FitsSetting(local) ==
  /\ local.at \in SettingStages => local.seen \subseteq link[local.book]
  /\ local.at = "insert" => local.added \cap (link[local.book] \ local.seen) = {}

HoldsGround(local) ==
  local.at = "insert" =>
    /\ local.added \subseteq subjects
    /\ local.book \notin books => local.added = {}

FitsRow(local) ==
  local.at \in TestStages /\ local.row.checked =>
    \/ local.row.subject \in link[local.row.book]
    \/ local.row.book \notin books
    \/ local.row.subject \notin subjects

Sound == \A q \in Requests : FitsSetting(req[q]) /\ HoldsGround(req[q]) /\ FitsRow(req[q])

LocksExclusive ==
  \A q, r \in Requests, b \in Books : q # r => Holds(q, b) \cap Holds(r, b) = {}

IInv == TypeOK /\ Sound /\ LocksExclusive /\ TestsFitTheirBook

-----------------------------------------------------------------------------
(* The locals of a request *)

LEMMA IdleLocal == Idle \in Locals /\ FitsSetting(Idle) /\ HoldsGround(Idle) /\ FitsRow(Idle)
BY DEF Idle, Locals, FitsSetting, HoldsGround, FitsRow, SettingStages, TestStages

LEMMA SettingLocal ==
  ASSUME NEW at \in SettingStages, NEW b \in Books, NEW want \in SUBSET Subjects,
         NEW seen \in SUBSET Subjects, NEW added \in SUBSET Subjects
  PROVE  Setting(at, b, want, seen, added) \in Locals
BY DEF Setting, Locals, SettingStages

LEMMA TestLocal ==
  ASSUME NEW at \in TestStages, NEW p \in Tests, NEW row \in Rows
  PROVE  OnTest(at, p, row) \in Locals
BY DEF OnTest, Locals, TestStages

LEMMA SettingFields ==
  ASSUME NEW local \in Locals, local.at \in SettingStages
  PROVE  /\ local.book \in Books /\ local.want \in SUBSET Subjects
         /\ local.seen \in SUBSET Subjects /\ local.added \in SUBSET Subjects
BY DEF Locals, SettingStages, Idle

LEMMA TestFields ==
  ASSUME NEW local \in Locals, local.at \in TestStages
  PROVE  /\ local.test \in Tests /\ local.row \in Rows
         /\ local.row.book \in Books /\ local.row.subject \in Subjects
         /\ local.row.checked \in BOOLEAN
BY DEF Locals, TestStages, Idle, Rows

LEMMA Types ==
  ASSUME IInv
  PROVE  /\ req \in [Requests -> Locals] /\ link \in [Books -> SUBSET Subjects]
         /\ test \in [Tests -> Rows \cup {None}]
         /\ subjects \in SUBSET Subjects /\ books \in SUBSET Books
         /\ Referenced
         /\ \A q \in Requests : /\ req[q] \in Locals
                                /\ FitsSetting(req[q]) /\ HoldsGround(req[q]) /\ FitsRow(req[q])
BY DEF IInv, TypeOK, Sound

LEMMA HeldRows ==
  \A q \in Requests, b \in Books :
    /\ Holds(q, b) = IF req[q].at = "insert" /\ req[q].book = b
                     THEN req[q].seen \cup req[q].added ELSE {}
    /\ Holds(q, b)' = IF req'[q].at = "insert" /\ req'[q].book = b
                      THEN req'[q].seen \cup req'[q].added ELSE {}
BY DEF Holds

\* Rows that no other request holds.
FreeOf(r, local) ==
  local.at = "insert" =>
    \A q \in Requests \ {r} : Holds(q, local.book) \cap (local.seen \cup local.added) = {}

\* A step of one request that writes no row.
LEMMA LocalStep ==
  ASSUME IInv, NEW r \in Requests, NEW local \in Locals, Continue(r, local),
         FitsSetting(local), HoldsGround(local), FitsRow(local), FreeOf(r, local),
         UNCHANGED <<subjects, books, link, test>>
  PROVE  IInv'
<1>1. req' \in [Requests -> Locals] /\ \A q \in Requests : req'[q] = IF q = r THEN local ELSE req[q]
  BY Types DEF Continue
<1>2. TypeOK'
  BY <1>1 DEF IInv, TypeOK, Referenced
<1>3. Sound'
  BY <1>1 DEF IInv, Sound, FitsSetting, HoldsGround, FitsRow
<1>4. LocksExclusive'
  <2> SUFFICES ASSUME NEW x \in Requests, NEW y \in Requests, NEW b \in Books, x # y
               PROVE  Holds(x, b)' \cap Holds(y, b)' = {}
    BY DEF LocksExclusive
  <2>1. ASSUME NEW q \in Requests \ {r} PROVE Holds(q, b)' = Holds(q, b)
    BY <1>1 DEF Holds
  <2>2. Holds(r, b)' = IF local.at = "insert" /\ local.book = b
                       THEN local.seen \cup local.added ELSE {}
    BY <1>1, HeldRows
  <2>3. \A q \in Requests \ {r} : Holds(q, b) \cap Holds(r, b)' = {}
    BY <2>2 DEF FreeOf
  <2> QED BY <2>1, <2>3 DEF IInv, LocksExclusive
<1>5. TestsFitTheirBook'
  BY DEF IInv, TestsFitTheirBook
<1> QED BY <1>2, <1>3, <1>4, <1>5 DEF IInv

\* A step that leaves alone what transactions hold.
LEMMA LocksKept ==
  ASSUME IInv, \A q \in Requests, b \in Books : Holds(q, b)' \subseteq Holds(q, b)
  PROVE  LocksExclusive'
BY DEF IInv, LocksExclusive

LEMMA FailStep ==
  ASSUME IInv, NEW r \in Requests, Fail(r)
  PROVE  IInv'
BY IdleLocal, LocalStep DEF Fail, FreeOf, Idle

LEMMA ToSetLocal ==
  ASSUME NEW b \in Books, NEW want \in SUBSET Subjects
  PROVE  /\ ToSet(b, want) \in Locals /\ FitsSetting(ToSet(b, want))
         /\ HoldsGround(ToSet(b, want)) /\ FitsRow(ToSet(b, want))
         /\ ToSet(b, want).at = "begin"
BY DEF ToSet, Locals, FitsSetting, HoldsGround, FitsRow, SettingStages, TestStages

LEMMA UpdateBookStep ==
  ASSUME IInv, NEW r \in Requests, NEW b \in Books, NEW want \in SUBSET Subjects,
         UpdateBook(r, b, want)
  PROVE  IInv'
BY ToSetLocal, LocalStep DEF UpdateBook, FreeOf

-----------------------------------------------------------------------------
(* set_subjects *)

LEMMA BeginSetStep ==
  ASSUME IInv, NEW r \in Requests, BeginSet(r)
  PROVE  IInv'
<1> DEFINE b == req[r].book
           local == Setting("delete", b, req[r].want, link[b], {})
<1>1. b \in Books /\ req[r].want \in SUBSET Subjects
  BY Types DEF BeginSet, Locals, Idle
<1>2. local \in Locals
  BY <1>1, SettingLocal, Types DEF SettingStages
<1>3. FitsSetting(local) /\ HoldsGround(local) /\ FitsRow(local) /\ FreeOf(r, local)
  BY DEF Setting, FitsSetting, HoldsGround, FitsRow, FreeOf, TestStages
<1>4. Continue(r, local) /\ UNCHANGED <<subjects, books, link, test>>
  BY DEF BeginSet
<1> HIDE DEF b, local
<1> QED BY <1>2, <1>3, <1>4, LocalStep

LEMMA DeleteLinksStep ==
  ASSUME IInv, NEW r \in Requests, DeleteLinks(r)
  PROVE  IInv'
<1> DEFINE local == Setting("insert", req[r].book, req[r].want, req[r].seen, {})
<1>1. local \in Locals
  BY SettingFields, SettingLocal, Types DEF DeleteLinks, SettingStages
<1>2. FitsSetting(local) /\ HoldsGround(local) /\ FitsRow(local) /\ FreeOf(r, local)
  BY Types DEF Setting, FitsSetting, HoldsGround, FitsRow, FreeOf, TestStages, SettingStages,
               DeleteLinks
<1>3. Continue(r, local) /\ UNCHANGED <<subjects, books, link, test>>
  BY DEF DeleteLinks
<1> HIDE DEF local
<1> QED BY <1>1, <1>2, <1>3, LocalStep

LEMMA InsertLinkStep ==
  ASSUME IInv, NEW r \in Requests, NEW s \in Subjects, InsertLink(r, s)
  PROVE  IInv'
<1> DEFINE local == Setting("insert", req[r].book, req[r].want, req[r].seen,
                            req[r].added \cup {s})
<1>1. local \in Locals
  BY SettingFields, SettingLocal, Types DEF InsertLink, SettingStages
<1>2. FitsSetting(local) /\ HoldsGround(local) /\ FitsRow(local)
  BY Types DEF Setting, FitsSetting, HoldsGround, FitsRow, TestStages, SettingStages, InsertLink
<1>4. FreeOf(r, local)
  <2>1. req[r].book \in Books /\ Holds(r, req[r].book) = req[r].seen \cup req[r].added
    BY SettingFields, Types DEF InsertLink, SettingStages, Holds
  <2>2. \A q \in Requests \ {r} : Holds(q, req[r].book) \cap (req[r].seen \cup req[r].added) = {}
    BY <2>1 DEF IInv, LocksExclusive
  <2> QED BY <2>2 DEF FreeOf, InsertLink, Setting
<1>3. Continue(r, local) /\ UNCHANGED <<subjects, books, link, test>>
  BY DEF InsertLink
<1> HIDE DEF local
<1> QED BY <1>1, <1>2, <1>3, <1>4, LocalStep

\* A row whose subject the commit takes from its book is marked, and stays a row.
LEMMA UnfitRow ==
  ASSUME NEW row \in Rows, NEW b \in Books, NEW lost
  PROVE  /\ Unfit(row, b, lost) \in Rows
         /\ Unfit(row, b, lost).book = row.book /\ Unfit(row, b, lost).subject = row.subject
         /\ Unfit(row, b, lost).checked =>
              row.checked /\ (row.book = b => row.subject \notin lost)
BY DEF Unfit, Rows

LEMMA OvertakenType ==
  ASSUME NEW local \in Locals, NEW b \in Books,
         NEW gone \in SUBSET Subjects, NEW lost \in SUBSET Subjects
  PROVE  Overtaken(local, b, gone, lost) \in Locals
<1> DEFINE after == Overtaken(local, b, gone, lost)
<1>1. CASE local.at \in SettingStages /\ local.book = b
  <2>1. after = Setting(local.at, b, local.want, local.seen \ gone, local.added)
    BY <1>1 DEF Overtaken
  <2>2. /\ local.want \in SUBSET Subjects /\ local.seen \ gone \in SUBSET Subjects
        /\ local.added \in SUBSET Subjects
    BY <1>1, SettingFields
  <2> QED BY <1>1, <2>1, <2>2 DEF Setting, Locals, SettingStages
<1>2. CASE local.at \in TestStages
  <2>1. after = OnTest(local.at, local.test, Unfit(local.row, b, lost))
    BY <1>2 DEF Overtaken, SettingStages, TestStages
  <2> QED BY <1>2, <2>1, TestFields, UnfitRow, TestLocal
<1>3. CASE ~(local.at \in SettingStages /\ local.book = b) /\ local.at \notin TestStages
  BY <1>3 DEF Overtaken
<1> QED BY <1>1, <1>2, <1>3

LEMMA CommitSetStep ==
  ASSUME IInv, NEW r \in Requests, CommitSet(r)
  PROVE  IInv'
<1> DEFINE mine == req[r]
           b == mine.book
           lost == mine.seen \ mine.added
<1>1. /\ mine.at = "insert" /\ mine.added = mine.want
      /\ link' = [link EXCEPT ![b] = (@ \ mine.seen) \cup mine.added]
      /\ req' = [q \in Requests |-> IF q = r THEN Idle ELSE Overtaken(req[q], b, mine.seen, lost)]
      /\ test' = [p \in Tests |-> IF test[p] = None THEN None ELSE Unfit(test[p], b, lost)]
      /\ subjects' = subjects /\ books' = books
  BY DEF CommitSet
<1>2. /\ b \in Books /\ mine.want \in SUBSET Subjects /\ mine.seen \in SUBSET Subjects
      /\ mine.added \in SUBSET Subjects
  BY <1>1, SettingFields, Types DEF SettingStages
<1>3. /\ mine.seen \subseteq link[b]
      /\ mine.added \subseteq subjects /\ (b \notin books => mine.added = {})
  BY <1>1, Types DEF FitsSetting, HoldsGround, SettingStages
<1>14. Holds(r, b) = mine.seen \cup mine.added
  BY <1>1 DEF Holds
<1> HIDE DEF mine, b, lost
<1>4. /\ link' \in [Books -> SUBSET Subjects]
      /\ \A x \in Books :
           link'[x] = IF x = b THEN (link[b] \ mine.seen) \cup mine.added ELSE link[x]
  BY <1>1, <1>2, Types
<1>13. lost \in SUBSET Subjects
  BY <1>2 DEF lost
<1>5. /\ req' \in [Requests -> Locals]
      /\ \A q \in Requests : req'[q] = IF q = r THEN Idle ELSE Overtaken(req[q], b, mine.seen, lost)
  BY <1>1, <1>2, <1>13, Types, IdleLocal, OvertakenType
<1>6. \A p \in Tests : test[p] # None => test[p] \in Rows
  BY Types
<1>7. /\ test' \in [Tests -> Rows \cup {None}]
      /\ \A p \in Tests : /\ test[p] = None => test'[p] = None
                          /\ test[p] # None => test'[p] = Unfit(test[p], b, lost)
  BY <1>1, <1>2, <1>6, UnfitRow
<1>8. Referenced'
  <2>1. \A x \in Books : link'[x] \subseteq subjects' /\ (x \notin books' => link'[x] = {})
    BY <1>1, <1>3, <1>4, Types DEF Referenced
  <2>2. \A p \in Tests : test'[p] # None =>
          test'[p].book \in books' /\ test'[p].subject \in subjects'
    BY <1>1, <1>2, <1>6, <1>7, UnfitRow, Types DEF Referenced
  <2> QED BY <2>1, <2>2 DEF Referenced
<1>9. TypeOK'
  BY <1>1, <1>4, <1>5, <1>7, <1>8, Types DEF TypeOK
<1>10. Sound'
  <2> SUFFICES ASSUME NEW q \in Requests
               PROVE  FitsSetting(req[q])' /\ HoldsGround(req[q])' /\ FitsRow(req[q])'
    BY DEF Sound
  <2>1. CASE q = r
    BY <2>1, <1>5, IdleLocal DEF FitsSetting, HoldsGround, FitsRow, Idle, SettingStages, TestStages
  <2>2. CASE q # r
    <3>1. req'[q] = Overtaken(req[q], b, mine.seen, lost) /\ req[q] \in Locals
      BY <2>2, <1>5, Types
    <3>2. FitsSetting(req[q])'
      <4>1. CASE req[q].at \in SettingStages /\ req[q].book = b
        <5>1. req'[q] = Setting(req[q].at, b, req[q].want, req[q].seen \ mine.seen,
                                req[q].added)
          BY <3>1, <4>1 DEF Overtaken
        <5>2. /\ req'[q].at = req[q].at /\ req'[q].book = b
              /\ req'[q].seen = req[q].seen \ mine.seen /\ req'[q].added = req[q].added
          BY <5>1 DEF Setting
        <5>3. req[q].seen \subseteq link[b]
          BY <4>1, Types DEF FitsSetting
        <5>4. req'[q].seen \subseteq link'[req'[q].book]
          BY <5>2, <5>3, <1>2, <1>4
        <5>5. ASSUME req[q].at = "insert"
              PROVE  req'[q].added \cap (link'[req'[q].book] \ req'[q].seen) = {}
          <6>1. req[q].added \cap (link[b] \ req[q].seen) = {}
            BY <4>1, <5>5, Types DEF FitsSetting
          <6>2. req[q].added \cap mine.added = {}
            <7>1. Holds(q, b) \cap Holds(r, b) = {}
              BY <2>2, <1>2 DEF IInv, LocksExclusive
            <7> QED BY <7>1, <4>1, <5>5, <1>2, <1>14, HeldRows
          <6>3. link'[b] = (link[b] \ mine.seen) \cup mine.added
            BY <1>2, <1>4
          <6> QED BY <5>2, <6>1, <6>2, <6>3, <1>3
        <5> QED BY <5>2, <5>4, <5>5, Zenon DEF FitsSetting
      <4>2. CASE req[q].at \in SettingStages /\ req[q].book # b
        <5>1. req'[q] = req[q] /\ req[q].book \in Books
          BY <3>1, <4>2, SettingFields DEF Overtaken, SettingStages, TestStages
        <5> QED BY <4>2, <5>1, <1>4, Types DEF FitsSetting
      <4>3. CASE req[q].at \notin SettingStages
        <5>1. req'[q].at = req[q].at
          <6>1. CASE req[q].at \in TestStages
            <7>1. req'[q] = OnTest(req[q].at, req[q].test, Unfit(req[q].row, b, lost))
              BY <3>1, <4>3, <6>1 DEF Overtaken
            <7> QED BY <7>1 DEF OnTest
          <6>2. CASE req[q].at \notin TestStages
            BY <3>1, <4>3, <6>2 DEF Overtaken
          <6> QED BY <6>1, <6>2
        <5> QED BY <4>3, <5>1 DEF FitsSetting, SettingStages
      <4> QED BY <4>1, <4>2, <4>3
    <3>3. HoldsGround(req[q])'
      BY <3>1, <1>1, Types DEF HoldsGround, Overtaken, Setting, OnTest, SettingStages, TestStages
    <3>4. FitsRow(req[q])'
      <4>5. req'[q].at \in TestStages =>
              req[q].at \in TestStages /\ req'[q].row = Unfit(req[q].row, b, lost)
        BY <3>1 DEF Overtaken, Setting, OnTest, SettingStages, TestStages
      <4> SUFFICES ASSUME req'[q].at \in TestStages, req'[q].row.checked,
                          req'[q].row.book \in books', req'[q].row.subject \in subjects'
                   PROVE  req'[q].row.subject \in link'[req'[q].row.book]
        BY DEF FitsRow
      <4>1. /\ req[q].row \in Rows /\ req[q].row.book \in Books
            /\ req'[q].row = Unfit(req[q].row, b, lost)
        BY <4>5, TestFields, Types
      <4>2. /\ req'[q].row.book = req[q].row.book /\ req'[q].row.subject = req[q].row.subject
            /\ req[q].row.checked /\ (req[q].row.book = b => req[q].row.subject \notin lost)
        BY <4>1, <1>2, UnfitRow
      <4>3. req[q].row.subject \in link[req[q].row.book]
        BY <4>2, <4>5, <1>1, Types DEF FitsRow
      <4> QED BY <4>1, <4>2, <4>3, <1>4 DEF lost
    <3> QED BY <3>2, <3>3, <3>4
  <2> QED BY <2>1, <2>2
<1>11. LocksExclusive'
  <2> SUFFICES ASSUME NEW q \in Requests, NEW x \in Books
               PROVE  Holds(q, x)' \subseteq Holds(q, x)
    BY LocksKept
  <2>1. CASE q = r
    BY <2>1, <1>5, HeldRows DEF Idle
  <2>2. CASE q # r
    <3>1. req'[q] = Overtaken(req[q], b, mine.seen, lost)
      BY <2>2, <1>5
    <3>2. req'[q].at = "insert" =>
            /\ req[q].at = "insert" /\ req'[q].book = req[q].book
            /\ req'[q].seen \subseteq req[q].seen /\ req'[q].added = req[q].added
      BY <3>1 DEF Overtaken, Setting, OnTest, SettingStages, TestStages
    <3> QED BY <3>2, HeldRows
  <2> QED BY <2>1, <2>2
<1>12. TestsFitTheirBook'
  <2> SUFFICES ASSUME NEW p \in Tests, test'[p] # None, test'[p].checked
               PROVE  test'[p].subject \in link'[test'[p].book]
    BY DEF TestsFitTheirBook
  <2>1. test[p] \in Rows /\ test'[p] = Unfit(test[p], b, lost) /\ test[p] # None
    BY <1>6, <1>7
  <2>2. /\ test'[p].book = test[p].book /\ test'[p].subject = test[p].subject
        /\ test[p].checked /\ (test[p].book = b => test[p].subject \notin lost)
    BY <2>1, <1>2, UnfitRow
  <2>3. test[p].subject \in link[test[p].book] /\ test[p].book \in Books
    BY <2>1, <2>2 DEF IInv, TestsFitTheirBook, Rows
  <2> QED BY <2>2, <2>3, <1>4 DEF lost
<1> QED BY <1>9, <1>10, <1>11, <1>12 DEF IInv

-----------------------------------------------------------------------------
(* Practice tests *)

LEMMA OnTestLocal ==
  ASSUME NEW at \in TestStages, NEW p \in Tests, NEW row \in Rows,
         row.checked => row.subject \in link[row.book]
  PROVE  /\ OnTest(at, p, row) \in Locals /\ FitsSetting(OnTest(at, p, row))
         /\ HoldsGround(OnTest(at, p, row)) /\ FitsRow(OnTest(at, p, row))
         /\ \A r \in Requests : FreeOf(r, OnTest(at, p, row))
BY TestLocal DEF OnTest, FitsSetting, HoldsGround, FitsRow, FreeOf, SettingStages, TestStages

LEMMA CreateTestStep ==
  ASSUME IInv, NEW r \in Requests, NEW p \in Tests, NEW b \in Books, NEW s \in Subjects,
         CreateTest(r, p, b, s)
  PROVE  IInv'
<1> DEFINE row == [book |-> b, subject |-> s, checked |-> TRUE]
<1>1. row \in Rows /\ row.subject \in link[row.book]
  BY DEF Rows, CreateTest
<1>2. Continue(r, OnTest("insertTest", p, row)) /\ UNCHANGED <<subjects, books, link, test>>
  BY DEF CreateTest
<1> HIDE DEF row
<1> QED BY <1>1, <1>2, OnTestLocal, LocalStep DEF TestStages

LEMMA UpdateTestStep ==
  ASSUME IInv, NEW r \in Requests, NEW p \in Tests, NEW b \in Books \cup {None},
         NEW s \in Subjects \cup {None}, UpdateTest(r, p, b, s)
  PROVE  IInv'
<1> DEFINE row == [book |-> Named(b, test[p].book), subject |-> Named(s, test[p].subject),
                   checked |-> test[p].checked /\ s = None /\ b \in {None, test[p].book}]
           at == IF s = None THEN "writeTest" ELSE "check"
<1>1. test[p] \in Rows /\ test[p] # None
  BY Types DEF UpdateTest
<1>2. row \in Rows
  BY <1>1 DEF Rows, Named
<1>3. row.checked => row.subject \in link[row.book]
  BY <1>1 DEF Named, IInv, TestsFitTheirBook
<1>4. Continue(r, OnTest(at, p, row)) /\ UNCHANGED <<subjects, books, link, test>>
  BY DEF UpdateTest
<1>5. at \in TestStages
  BY DEF TestStages
<1> HIDE DEF row, at
<1> QED BY <1>2, <1>3, <1>4, <1>5, OnTestLocal, LocalStep

LEMMA CheckTestStep ==
  ASSUME IInv, NEW r \in Requests, CheckTest(r)
  PROVE  IInv'
<1> DEFINE row == Checked(req[r].row)
<1>1. /\ row \in Rows /\ row.subject \in link[row.book] /\ req[r].test \in Tests
  BY TestFields, Types DEF Checked, Rows, CheckTest, TestStages
<1>2. Continue(r, OnTest("writeTest", req[r].test, row))
        /\ UNCHANGED <<subjects, books, link, test>>
  BY DEF CheckTest
<1> HIDE DEF row
<1> QED BY <1>1, <1>2, OnTestLocal, LocalStep DEF TestStages

\* The row that is written fits its book: the foreign keys found both its ends.
LEMMA StoreTestStep ==
  ASSUME IInv, NEW r \in Requests, req[r].at \in TestStages, StoreTest(r)
  PROVE  IInv'
<1> DEFINE row == req[r].row
           p == req[r].test
<1>1. p \in Tests /\ row \in Rows
  BY TestFields, Types
<1>2. /\ row.book \in books /\ row.subject \in subjects
      /\ test' = [test EXCEPT ![p] = row] /\ req' = [req EXCEPT ![r] = Idle]
      /\ UNCHANGED <<subjects, books, link>>
  BY DEF StoreTest, Continue
<1>3. row.checked => row.subject \in link[row.book]
  BY <1>2, Types DEF FitsRow
<1> HIDE DEF row, p
<1>4. /\ test' \in [Tests -> Rows \cup {None}]
      /\ \A x \in Tests : test'[x] = IF x = p THEN row ELSE test[x]
  BY <1>1, <1>2, Types
<1>5. /\ req' \in [Requests -> Locals]
      /\ \A q \in Requests : req'[q] = IF q = r THEN Idle ELSE req[q]
  BY <1>2, Types, IdleLocal
<1>6. TypeOK'
  BY <1>2, <1>4, <1>5, Types DEF TypeOK, Referenced
<1>7. Sound'
  BY <1>2, <1>5, Types, IdleLocal DEF Sound, FitsSetting, HoldsGround, FitsRow
<1>8. LocksExclusive'
  BY <1>5, HeldRows, LocksKept DEF Idle
<1>9. TestsFitTheirBook'
  BY <1>2, <1>3, <1>4 DEF IInv, TestsFitTheirBook
<1> QED BY <1>6, <1>7, <1>8, <1>9 DEF IInv

-----------------------------------------------------------------------------
(* Creations and deletions of rows *)

\* A new subject is one that no request names: what a request found gone stays gone.
LEMMA CreateSubjectStep ==
  ASSUME IInv, NEW s \in Subjects, CreateSubject(s)
  PROVE  IInv'
<1>1. /\ subjects' = subjects \cup {s} /\ UNCHANGED <<books, link, test, req>>
      /\ \A q \in Requests : ~KnowsSubject(q, s)
  BY DEF CreateSubject
<1>2. TypeOK'
  BY <1>1, Types DEF TypeOK, Referenced
<1>3. Sound'
  BY <1>1, Types DEF Sound, FitsSetting, HoldsGround, FitsRow, KnowsSubject
<1>4. LocksExclusive'
  BY <1>1, HeldRows, LocksKept
<1> QED BY <1>1, <1>2, <1>3, <1>4 DEF IInv, TestsFitTheirBook

LEMMA CreateBookStep ==
  ASSUME IInv, NEW r \in Requests, NEW b \in Books, NEW want \in SUBSET Subjects,
         CreateBook(r, b, want)
  PROVE  IInv'
<1> DEFINE local == ToSet(b, want)
<1>1. /\ local \in Locals /\ local.at = "begin"
  BY ToSetLocal
<1>2. /\ books' = books \cup {b} /\ UNCHANGED <<subjects, link, test>>
      /\ req' = [req EXCEPT ![r] = local]
      /\ \A q \in Requests : ~KnowsBook(q, b)
  BY DEF CreateBook, Continue
<1> HIDE DEF local
<1>3. /\ req' \in [Requests -> Locals]
      /\ \A q \in Requests : req'[q] = IF q = r THEN local ELSE req[q]
  BY <1>1, <1>2, Types
<1>4. TypeOK'
  BY <1>2, <1>3, Types DEF TypeOK, Referenced
<1>5. Sound'
  <2> SUFFICES ASSUME NEW q \in Requests
               PROVE  FitsSetting(req[q])' /\ HoldsGround(req[q])' /\ FitsRow(req[q])'
    BY DEF Sound
  <2>1. CASE q = r
    BY <2>1, <1>1, <1>3 DEF FitsSetting, HoldsGround, FitsRow, SettingStages, TestStages
  <2>2. CASE q # r
    BY <2>2, <1>2, <1>3, Types
       DEF FitsSetting, HoldsGround, FitsRow, KnowsBook, BookStages, SettingStages
  <2> QED BY <2>1, <2>2
<1>6. LocksExclusive'
  BY <1>1, <1>3, HeldRows, LocksKept
<1> QED BY <1>2, <1>4, <1>5, <1>6 DEF IInv, TestsFitTheirBook

LEMMA DeleteTestStep ==
  ASSUME IInv, NEW p \in Tests, DeleteTest(p)
  PROVE  IInv'
<1>1. /\ test' = [test EXCEPT ![p] = None]
      /\ UNCHANGED <<subjects, books, link, req>>
  BY DEF DeleteTest
<1>2. TypeOK'
  BY <1>1, Types DEF TypeOK, Referenced
<1>3. Sound'
  BY <1>1, Types DEF Sound, FitsSetting, HoldsGround, FitsRow
<1>4. LocksExclusive'
  BY <1>1, HeldRows, LocksKept
<1> QED BY <1>1, <1>2, <1>3, <1>4, Types DEF IInv, TestsFitTheirBook

LEMMA CascadedLocal ==
  ASSUME NEW local \in Locals, NEW S \in SUBSET Subjects, NEW B \in SUBSET Books
  PROVE  Cascaded(local, S, B) \in Locals
BY SettingFields, SettingLocal DEF Cascaded, Setting, SettingStages

LEMMA DeleteStep ==
  ASSUME IInv, NEW S \in SUBSET Subjects, NEW B \in SUBSET Books, Delete(S, B)
  PROVE  IInv'
<1>1. /\ \A q \in Requests, b \in Books :
           Holds(q, b) \cap S = {} /\ (b \in B => Holds(q, b) = {})
      /\ subjects' = subjects \ S /\ books' = books \ B
      /\ link' = [b \in Books |-> IF b \in B THEN {} ELSE link[b] \ S]
      /\ req' = [q \in Requests |-> Cascaded(req[q], S, B)]
      /\ test' = [p \in Tests |->
           IF test[p] # None /\ (test[p].book \in B \/ test[p].subject \in S)
           THEN None ELSE test[p]]
  BY DEF Delete, Remove
<1>2. /\ link' \in [Books -> SUBSET Subjects]
      /\ test' \in [Tests -> Rows \cup {None}]
      /\ subjects' \subseteq Subjects /\ books' \subseteq Books
  BY <1>1, Types
<1>3. req' \in [Requests -> Locals]
  BY <1>1, CascadedLocal, Types
<1>4. Referenced'
  <2>1. \A b \in Books : link'[b] \subseteq subjects' /\ (b \notin books' => link'[b] = {})
    BY <1>1, Types DEF Referenced
  <2>2. ASSUME NEW p \in Tests, test'[p] # None
        PROVE  test'[p].book \in books' /\ test'[p].subject \in subjects'
    BY <1>1, <2>2, Types DEF Referenced
  <2> QED BY <2>1, <2>2 DEF Referenced
<1>5. Sound'
  <2> SUFFICES ASSUME NEW q \in Requests
               PROVE  FitsSetting(req[q])' /\ HoldsGround(req[q])' /\ FitsRow(req[q])'
    BY DEF Sound
  <2>3. req'[q] = Cascaded(req[q], S, B) /\ req[q] \in Locals
    BY <1>1, Types
  <2>1. CASE req[q].at = "delete"
    <3>1. /\ req'[q].at = "delete" /\ req'[q].book = req[q].book
          /\ req'[q].seen = IF req[q].book \in B THEN {} ELSE req[q].seen \ S
      BY <2>1, <2>3 DEF Cascaded, Setting
    <3>2. req[q].book \in Books
      BY <2>1, SettingFields, Types DEF SettingStages
    <3> QED BY <2>1, <3>1, <3>2, <1>1, Types
        DEF FitsSetting, HoldsGround, FitsRow, SettingStages, TestStages
  <2>2. CASE req[q].at # "delete"
    <3>1. req'[q] = req[q]
      BY <2>2, <2>3 DEF Cascaded
    <3>2. req[q].at = "insert" =>
            /\ req[q].book \in Books
            /\ (req[q].seen \cup req[q].added) \cap S = {}
            /\ req[q].book \in B => req[q].seen \cup req[q].added = {}
      BY <1>1, SettingFields, Types DEF SettingStages, Holds
    <3>3. FitsSetting(req[q])'
      BY <2>2, <3>1, <3>2, <1>1, Types DEF FitsSetting, SettingStages
    <3>4. HoldsGround(req[q])'
      BY <3>1, <3>2, <1>1, Types DEF HoldsGround
    <3>5. FitsRow(req[q])'
      BY <3>1, <1>1, TestFields, Types DEF FitsRow
    <3> QED BY <3>3, <3>4, <3>5
  <2> QED BY <2>1, <2>2
<1>6. LocksExclusive'
  <2>1. \A q \in Requests : req'[q].at = "insert" => req'[q] = req[q]
    BY <1>1 DEF Cascaded, Setting
  <2> QED BY <2>1, HeldRows, LocksKept
<1>7. TestsFitTheirBook'
  <2> SUFFICES ASSUME NEW p \in Tests, test'[p] # None, test'[p].checked
               PROVE  test'[p].subject \in link'[test'[p].book]
    BY DEF TestsFitTheirBook
  <2>1. /\ test'[p] = test[p] /\ test[p].book \notin B /\ test[p].subject \notin S
        /\ test[p].book \in Books
    BY <1>1, Types DEF Rows
  <2> QED BY <2>1, <1>1, Types DEF IInv, TestsFitTheirBook
<1> QED BY <1>2, <1>3, <1>4, <1>5, <1>6, <1>7 DEF IInv, TypeOK

-----------------------------------------------------------------------------
(* The refinement of CatalogContract, one case per statement               *)

LEMMA OpeningNotNone ==
  ASSUME NEW local \in Locals, local.at \in SettingStages, link \in [Books -> SUBSET Subjects]
  PROVE  Opening(local) # None
<1>1. Opening(local) \in Openings
  BY SettingFields DEF Opening, Openings
<1> QED BY <1>1, NoneIsNoRow

LEMMA OpenAt ==
  /\ Open = [q \in Requests |-> Open[q]] /\ \A q \in Requests : Open[q] = Opening(req[q])
  /\ Open' = [q \in Requests |-> Open'[q]] /\ \A q \in Requests : Open'[q] = Opening(req[q])'
BY DEF Open

LEMMA OpenKept ==
  ASSUME \A q \in Requests : Opening(req[q])' = Opening(req[q])
  PROVE  Open' = Open
BY DEF Open

LEMMA AssignedKept == test' = test => Assigned' = Assigned
BY DEF Assigned, Ends

\* A step of one request that writes no row changes what that request has open.
LEMMA OneOpening ==
  ASSUME IInv, NEW r \in Requests, NEW local, Continue(r, local), link' = link
  PROVE  Open' = [Open EXCEPT ![r] = Opening(local)]
<1>1. \A q \in Requests : req'[q] = IF q = r THEN local ELSE req[q]
  BY Types DEF Continue
<1>2. ASSUME NEW q \in Requests
      PROVE  Open'[q] = IF q = r THEN Opening(local) ELSE Open[q]
  BY <1>1, <1>2, OpenAt DEF Opening
<1> QED BY <1>2, OpenAt

LEMMA QuietStep ==
  ASSUME IInv, NEW r \in Requests, NEW local, Continue(r, local),
         Opening(local) = Opening(req[r]), UNCHANGED <<subjects, books, link, test>>
  PROVE  UNCHANGED Contract!vars
<1>1. Open' = [Open EXCEPT ![r] = Opening(local)]
  BY OneOpening
<1>2. Open' = Open
  BY <1>1, OpenAt
<1> QED BY <1>2, AssignedKept DEF Contract!vars

LEMMA NotSetting ==
  /\ Opening(Idle) = None
  /\ \A b, want : Opening(ToSet(b, want)) = None
  /\ \A at \in TestStages : \A p, row : Opening(OnTest(at, p, row)) = None
BY DEF Opening, Idle, ToSet, OnTest, TestStages, SettingStages

\* Looking things up, and the DELETE and the INSERTs of set_subjects, are invisible.
LEMMA StatementsAreInvisible ==
  ASSUME IInv, NEW r \in Requests, NEW b, NEW p, NEW s, NEW want,
         \/ UpdateBook(r, b, want) \/ DeleteLinks(r) \/ InsertLink(r, s)
         \/ CreateTest(r, p, b, s) \/ UpdateTest(r, p, b, s) \/ CheckTest(r)
  PROVE  UNCHANGED Contract!vars
<1>1. CASE UpdateBook(r, b, want)
  BY <1>1, QuietStep, NotSetting DEF UpdateBook
<1>2. CASE DeleteLinks(r)
  <2> DEFINE local == Setting("insert", req[r].book, req[r].want, req[r].seen, {})
  <2>1. Opening(local) = Opening(req[r])
    BY <1>2 DEF DeleteLinks, Opening, Setting, SettingStages
  <2>2. Continue(r, local) /\ UNCHANGED <<subjects, books, link, test>>
    BY <1>2 DEF DeleteLinks
  <2> HIDE DEF local
  <2> QED BY <2>1, <2>2, QuietStep
<1>3. CASE InsertLink(r, s)
  <2> DEFINE local == Setting("insert", req[r].book, req[r].want, req[r].seen,
                              req[r].added \cup {s})
  <2>1. Opening(local) = Opening(req[r])
    BY <1>3 DEF InsertLink, Opening, Setting, SettingStages
  <2>2. Continue(r, local) /\ UNCHANGED <<subjects, books, link, test>>
    BY <1>3 DEF InsertLink
  <2> HIDE DEF local
  <2> QED BY <2>1, <2>2, QuietStep
<1>4. CASE CreateTest(r, p, b, s)
  BY <1>4, QuietStep, NotSetting DEF CreateTest, TestStages
<1>5. CASE UpdateTest(r, p, b, s)
  <2>1. /\ req[r] = Idle /\ UNCHANGED <<subjects, books, link, test>>
        /\ \E at \in TestStages : \E row : Continue(r, OnTest(at, p, row))
    BY <1>5 DEF UpdateTest, TestStages
  <2>2. PICK local : Continue(r, local) /\ Opening(local) = None
    BY <2>1, NotSetting
  <2> QED BY <2>1, <2>2, QuietStep, NotSetting
<1>6. CASE CheckTest(r)
  <2>1. Opening(req[r]) = None
    BY <1>6 DEF CheckTest, Opening, SettingStages
  <2> QED BY <1>6, <2>1, QuietStep, NotSetting DEF CheckTest, TestStages
<1> QED BY <1>1, <1>2, <1>3, <1>4, <1>5, <1>6

LEMMA CreateSubjectCreates ==
  ASSUME NEW s \in Subjects, CreateSubject(s)
  PROVE  Contract!CreateSubject(s)
<1>1. Open' = Open
  BY OpenKept DEF CreateSubject, Opening
<1> QED BY <1>1, AssignedKept DEF CreateSubject, Contract!CreateSubject

LEMMA CreateBookCreates ==
  ASSUME IInv, NEW r \in Requests, NEW b \in Books, NEW want, CreateBook(r, b, want)
  PROVE  Contract!CreateBook(b)
<1>1. Open' = [Open EXCEPT ![r] = None]
  BY OneOpening, NotSetting DEF CreateBook
<1>2. Open' = Open
  BY <1>1, OpenAt, NotSetting DEF CreateBook
<1> QED BY <1>2, AssignedKept DEF CreateBook, Contract!CreateBook

\* When the DELETE begins, nothing is late.
LEMMA BeginSetBegins ==
  ASSUME IInv, NEW r \in Requests, BeginSet(r)
  PROVE  /\ req[r].book \in Books /\ req[r].want \in SUBSET Subjects
         /\ Contract!BeginSet(r, req[r].book, req[r].want)
<1> DEFINE b == req[r].book
           want == req[r].want
           local == Setting("delete", b, want, link[b], {})
<1>1. b \in Books /\ want \in SUBSET Subjects
  BY Types DEF BeginSet, Locals, Idle
<1>2. Opening(local) = [book |-> b, want |-> want, late |-> {}]
  BY DEF Opening, Setting, SettingStages
<1>3. Open[r] = None
  BY OpenAt DEF BeginSet, Opening, SettingStages
<1>4. Continue(r, local) /\ UNCHANGED <<subjects, books, link, test>>
  BY DEF BeginSet
<1> HIDE DEF b, want, local
<1>5. Open' = [Open EXCEPT ![r] = [book |-> b, want |-> want, late |-> {}]]
  BY <1>2, <1>4, OneOpening
<1>6. Contract!BeginSet(r, b, want)
  BY <1>3, <1>4, <1>5, AssignedKept DEF Contract!BeginSet
<1> QED BY <1>1, <1>6 DEF b, want

\* The COMMIT is where set_subjects takes effect.
LEMMA CommitSetCommits ==
  ASSUME IInv, NEW r \in Requests, CommitSet(r)
  PROVE  Contract!CommitSet(r)
<1> DEFINE mine == req[r]
           b == mine.book
           lost == mine.seen \ mine.added
           kept == link[b] \ mine.seen
<1>1. /\ mine.at = "insert" /\ mine.added = mine.want
      /\ link' = [link EXCEPT ![b] = (@ \ mine.seen) \cup mine.added]
      /\ req' = [q \in Requests |-> IF q = r THEN Idle ELSE Overtaken(req[q], b, mine.seen, lost)]
      /\ test' = [p \in Tests |-> IF test[p] = None THEN None ELSE Unfit(test[p], b, lost)]
      /\ subjects' = subjects /\ books' = books
  BY DEF CommitSet
<1>2. /\ mine \in Locals /\ mine.at \in SettingStages /\ b \in Books
      /\ mine.want \in SUBSET Subjects /\ mine.seen \in SUBSET Subjects
  BY <1>1, SettingFields, Types DEF SettingStages
<1>3. /\ mine.seen \subseteq link[b] /\ mine.want \cap kept = {}
      /\ mine.want \subseteq subjects /\ (b \notin books => mine.want = {})
  BY <1>1, Types DEF FitsSetting, HoldsGround, SettingStages
<1>4. Opening(mine) = [book |-> b, want |-> mine.want, late |-> kept] /\ Opening(mine) # None
  BY <1>2, OpeningNotNone, Types DEF Opening
<1>5. Open[r] = Opening(mine)
  BY OpenAt
<1> HIDE DEF mine, b, lost, kept
<1>6. /\ Open[r] # None /\ Open[r].book = b /\ Open[r].want = mine.want /\ Open[r].late = kept
  BY <1>4, <1>5
<1>7. link' = [link EXCEPT ![b] = kept \cup mine.want]
  BY <1>1 DEF kept
<1>8. link'[b] = kept \cup mine.want /\ \A x \in Books : x # b => link'[x] = link[x]
  BY <1>2, <1>7, Types
<1>9. ASSUME NEW q \in Requests \ {r}
      PROVE  Open'[q] = Contract!Overtaken(q, b, kept, mine.want)
  <2>1. req'[q] = Overtaken(req[q], b, mine.seen, lost) /\ req[q] \in Locals
    BY <1>1, Types
  <2>2. Open[q] = Opening(req[q]) /\ Open'[q] = Opening(req[q])'
    BY OpenAt
  <2>3. CASE req[q].at \in SettingStages /\ req[q].book = b
    <3>1. Open[q] = [book |-> b, want |-> req[q].want, late |-> link[b] \ req[q].seen]
      BY <2>2, <2>3 DEF Opening
    <3>2. Open[q] # None
      BY <2>1, <2>2, <2>3, OpeningNotNone, Types
    <3>3. /\ req'[q].at \in SettingStages /\ req'[q].book = b /\ req'[q].want = req[q].want
          /\ req'[q].seen = req[q].seen \ mine.seen
      BY <2>1, <2>3 DEF Overtaken, Setting
    <3>4. Open'[q] = [book |-> b, want |-> req[q].want,
                      late |-> link'[b] \ (req[q].seen \ mine.seen)]
      BY <2>2, <3>3 DEF Opening
    <3>5. req[q].seen \subseteq link[b]
      BY <2>3, Types DEF FitsSetting
    <3>6. link'[b] \ (req[q].seen \ mine.seen)
            = ((link[b] \ req[q].seen) \cap kept) \cup mine.want
      BY <1>3, <1>8, <3>5 DEF kept
    <3>7. Contract!Overtaken(q, b, kept, mine.want)
            = [book |-> b, want |-> Open[q].want,
               late |-> (Open[q].late \cap kept) \cup mine.want]
      BY <3>1, <3>2 DEF Contract!Overtaken
    <3>8. /\ Open[q].want = req[q].want
          /\ link'[b] \ (req[q].seen \ mine.seen) = (Open[q].late \cap kept) \cup mine.want
      BY <3>1, <3>6
    <3> QED BY <3>4, <3>7, <3>8, Zenon
  <2>4. CASE req[q].at \in SettingStages /\ req[q].book # b
    <3>1. req'[q] = req[q] /\ req[q].book \in Books
      BY <2>1, <2>4, SettingFields DEF Overtaken, SettingStages, TestStages
    <3>2. Open'[q] = Open[q]
      BY <2>2, <3>1, <2>4, <1>8 DEF Opening
    <3>3. Open[q].book # b
      BY <2>2, <2>4 DEF Opening
    <3> QED BY <3>2, <3>3 DEF Contract!Overtaken
  <2>5. CASE req[q].at \notin SettingStages
    <3>1. req'[q].at = req[q].at
      <4>1. CASE req[q].at \in TestStages
        BY <2>1, <2>5, <4>1 DEF Overtaken, OnTest
      <4>2. CASE req[q].at \notin TestStages
        BY <2>1, <2>5, <4>2 DEF Overtaken
      <4> QED BY <4>1, <4>2
    <3>2. Open[q] = None /\ Open'[q] = None
      BY <2>2, <2>5, <3>1 DEF Opening
    <3> QED BY <3>2 DEF Contract!Overtaken
  <2> QED BY <2>3, <2>4, <2>5
<1>10. Open'[r] = None
  <2>1. req'[r] = Idle
    BY <1>1
  <2> QED BY <2>1, OpenAt DEF Opening, Idle, SettingStages
<1>11. Open' = [q \in Requests |->
                  IF q = r THEN None ELSE Contract!Overtaken(q, b, kept, mine.want)]
  BY <1>9, <1>10, OpenAt
<1>12. Assigned' = Assigned
  <2>1. ASSUME NEW p \in Tests
        PROVE  Ends(test[p])' = Ends(test[p])
    <3>1. CASE test[p] = None
      BY <3>1, <1>1 DEF Ends
    <3>2. CASE test[p] # None
      <4>1. test[p] \in Rows /\ test'[p] = Unfit(test[p], b, lost)
        BY <3>2, <1>1, Types
      <4>2. /\ test'[p] \in Rows /\ test'[p].book = test[p].book
            /\ test'[p].subject = test[p].subject
        BY <4>1, <1>2, UnfitRow
      <4> QED BY <3>2, <4>2, NoneIsNoRow DEF Ends
    <3> QED BY <3>1, <3>2
  <2> QED BY <2>1 DEF Assigned
<1> QED BY <1>1, <1>3, <1>6, <1>7, <1>11, <1>12 DEF Contract!CommitSet

\* A request that ends before its COMMIT has set nothing.
LEMMA FailGivesUp ==
  ASSUME IInv, NEW r \in Requests, Fail(r)
  PROVE  Contract!GiveUp(r) \/ UNCHANGED Contract!vars
<1>1. Open' = [Open EXCEPT ![r] = None]
  BY OneOpening, NotSetting DEF Fail
<1>2. UNCHANGED <<subjects, books, link>> /\ Assigned' = Assigned
  BY AssignedKept DEF Fail
<1>3. CASE Open[r] = None
  <2>1. Open' = Open
    BY <1>1, <1>3, OpenAt
  <2> QED BY <1>2, <2>1 DEF Contract!vars
<1>4. CASE Open[r] # None
  BY <1>1, <1>2, <1>4 DEF Contract!GiveUp
<1> QED BY <1>3, <1>4

LEMMA StoreTestStores ==
  ASSUME IInv, NEW r \in Requests, req[r].at \in TestStages, StoreTest(r)
  PROVE  \E p \in Tests, b \in Books, s \in Subjects : Contract!StoreTest(p, b, s)
<1>1. PICK p \in Tests, row \in Rows : p = req[r].test /\ row = req[r].row
  BY TestFields, Types
<1>2. /\ row.book \in books /\ row.subject \in subjects
      /\ row.book \in Books /\ row.subject \in Subjects /\ row # None
      /\ test' = [test EXCEPT ![p] = row]
      /\ UNCHANGED <<subjects, books, link>> /\ Continue(r, Idle)
  BY <1>1, NoneIsNoRow DEF StoreTest, Rows
<1>3. Open' = [Open EXCEPT ![r] = None]
  BY <1>2, OneOpening, NotSetting
<1>4. Open[r] = None
  BY OpenAt DEF Opening, TestStages, SettingStages
<1>5. Open' = Open
  BY <1>3, <1>4, OpenAt
<1>6. \A x \in Tests : test'[x] = IF x = p THEN row ELSE test[x]
  BY <1>2, Types
<1>7. \A x \in Tests : Ends(test[x])' =
        IF x = p THEN [book |-> row.book, subject |-> row.subject] ELSE Ends(test[x])
  BY <1>2, <1>6 DEF Ends
<1>8. Assigned' = [Assigned EXCEPT ![p] = [book |-> row.book, subject |-> row.subject]]
  BY <1>7 DEF Assigned
<1>9. Contract!StoreTest(p, row.book, row.subject)
  BY <1>2, <1>5, <1>8 DEF Contract!StoreTest
<1> QED BY <1>2, <1>9

LEMMA DeleteTestDeletes ==
  ASSUME IInv, NEW p \in Tests, DeleteTest(p)
  PROVE  Contract!DeleteTest(p)
<1>1. test' = [test EXCEPT ![p] = None] /\ UNCHANGED <<subjects, books, link, req>>
  BY DEF DeleteTest
<1>2. Open' = Open
  BY <1>1, OpenKept DEF Opening
<1>3. \A x \in Tests : Ends(test[x])' = IF x = p THEN None ELSE Ends(test[x])
  BY <1>1, Types DEF Ends
<1>4. Assigned' = [Assigned EXCEPT ![p] = None]
  BY <1>3 DEF Assigned
<1> QED BY <1>1, <1>2, <1>4 DEF Contract!DeleteTest

\* A cascade takes the rows that are late along; one it would take from under a
\* transaction it waits for.
LEMMA DeleteDeletes ==
  ASSUME IInv, NEW S \in SUBSET Subjects, NEW B \in SUBSET Books, Delete(S, B)
  PROVE  Contract!Delete(S, B)
<1>1. /\ subjects' = subjects \ S /\ books' = books \ B
      /\ link' = [b \in Books |-> IF b \in B THEN {} ELSE link[b] \ S]
      /\ req' = [q \in Requests |-> Cascaded(req[q], S, B)]
      /\ test' = [p \in Tests |->
           IF test[p] # None /\ (test[p].book \in B \/ test[p].subject \in S)
           THEN None ELSE test[p]]
  BY DEF Delete, Remove
<1>2. ASSUME NEW p \in Tests
      PROVE  Ends(test[p])' =
               IF Ends(test[p]) # None /\ (Ends(test[p]).book \in B \/ Ends(test[p]).subject \in S)
               THEN None ELSE Ends(test[p])
  BY <1>1 DEF Ends
<1>3. Assigned' = [p \in Tests |->
        IF Assigned[p] # None /\ (Assigned[p].book \in B \/ Assigned[p].subject \in S)
        THEN None ELSE Assigned[p]]
  BY <1>2 DEF Assigned
<1>4. ASSUME NEW q \in Requests
      PROVE  Open'[q] = IF Open[q] = None THEN None
                        ELSE [book |-> Open[q].book, want |-> Open[q].want,
                              late |-> IF Open[q].book \in B THEN {} ELSE Open[q].late \ S]
  <2>1. /\ req'[q] = Cascaded(req[q], S, B) /\ req[q] \in Locals
        /\ Open[q] = Opening(req[q]) /\ Open'[q] = Opening(req[q])'
    BY <1>1, OpenAt, Types
  <2>2. CASE req[q].at \in SettingStages
    <3>1. /\ Open[q] # None
          /\ Open[q] = [book |-> req[q].book, want |-> req[q].want,
                        late |-> link[req[q].book] \ req[q].seen]
      BY <2>1, <2>2, OpeningNotNone, Types DEF Opening
    <3>2. /\ req'[q].at \in SettingStages /\ req'[q].book = req[q].book
          /\ req'[q].want = req[q].want
      BY <2>1, <2>2 DEF Cascaded, Setting
    <3>3. Open'[q] = [book |-> req[q].book, want |-> req[q].want,
                      late |-> link'[req[q].book] \ req'[q].seen]
      BY <2>1, <3>2 DEF Opening
    <3>4. /\ req[q].book \in Books
          /\ link'[req[q].book] = IF req[q].book \in B THEN {} ELSE link[req[q].book] \ S
      BY <2>1, <2>2, <1>1, SettingFields
    <3>5. req[q].book \notin B => req'[q].seen \in {req[q].seen, req[q].seen \ S}
      BY <2>1, <2>2 DEF Cascaded, Setting
    <3>6. link'[req[q].book] \ req'[q].seen =
            IF req[q].book \in B THEN {} ELSE (link[req[q].book] \ req[q].seen) \ S
      BY <3>4, <3>5
    <3>7. /\ Open[q].book = req[q].book /\ Open[q].want = req[q].want
          /\ link'[req[q].book] \ req'[q].seen =
               IF Open[q].book \in B THEN {} ELSE Open[q].late \ S
      BY <3>1, <3>6
    <3> QED BY <3>1, <3>3, <3>7, Zenon
  <2>3. CASE req[q].at \notin SettingStages
    <3>1. req'[q] = req[q]
      BY <2>1, <2>3 DEF Cascaded, SettingStages
    <3> QED BY <2>1, <2>3, <3>1 DEF Opening
  <2> QED BY <2>2, <2>3
<1>5. Open' = [q \in Requests |->
         IF Open[q] = None THEN None
         ELSE [book |-> Open[q].book, want |-> Open[q].want,
               late |-> IF Open[q].book \in B THEN {} ELSE Open[q].late \ S]]
  BY <1>4, OpenAt
<1> QED BY <1>1, <1>3, <1>5 DEF Contract!Delete

LEMMA InitContract == Init => Contract!Init
BY DEF Init, Contract!Init, Open, Opening, Idle, SettingStages, Assigned, Ends

LEMMA StepContract == IInv /\ [Next]_vars => [Contract!Next]_(Contract!vars)
<1> SUFFICES ASSUME IInv, [Next]_vars PROVE [Contract!Next]_(Contract!vars)
  OBVIOUS
<1>1. CASE \E s \in Subjects : CreateSubject(s)
  BY <1>1, CreateSubjectCreates DEF Contract!Next
<1>2. CASE \E S \in SUBSET Subjects, B \in SUBSET Books : Delete(S, B)
  BY <1>2, DeleteDeletes DEF Contract!Next
<1>3. CASE \E p \in Tests : DeleteTest(p)
  BY <1>3, DeleteTestDeletes DEF Contract!Next
<1>4. ASSUME NEW r \in Requests, NEW b \in Books, NEW want \in SUBSET Subjects,
             CreateBook(r, b, want) \/ UpdateBook(r, b, want)
      PROVE  [Contract!Next]_(Contract!vars)
  BY <1>4, CreateBookCreates, StatementsAreInvisible DEF Contract!Next
<1>5. ASSUME NEW r \in Requests, NEW p \in Tests, NEW b \in Books, NEW s \in Subjects,
             CreateTest(r, p, b, s)
      PROVE  UNCHANGED Contract!vars
  BY <1>5, StatementsAreInvisible
<1>6. ASSUME NEW r \in Requests, NEW p \in Tests, NEW b \in Books \cup {None},
             NEW s \in Subjects \cup {None}, UpdateTest(r, p, b, s)
      PROVE  UNCHANGED Contract!vars
  BY <1>6, StatementsAreInvisible
<1>7. ASSUME NEW r \in Requests, BeginSet(r) \/ CommitSet(r)
      PROVE  Contract!Next
  BY <1>7, BeginSetBegins, CommitSetCommits DEF Contract!Next
<1>8. ASSUME NEW r \in Requests, NEW s \in Subjects,
             InsertLink(r, s)
      PROVE  UNCHANGED Contract!vars
  BY <1>8, StatementsAreInvisible
<1>9. ASSUME NEW r \in Requests, DeleteLinks(r) \/ CheckTest(r)
      PROVE  UNCHANGED Contract!vars
  BY <1>9, StatementsAreInvisible
<1>10. ASSUME NEW r \in Requests, InsertTest(r) \/ WriteTest(r)
       PROVE  Contract!Next
  BY <1>10, StoreTestStores DEF InsertTest, WriteTest, TestStages, Contract!Next
<1>11. ASSUME NEW r \in Requests, Fail(r)
       PROVE  [Contract!Next]_(Contract!vars)
  BY <1>11, FailGivesUp DEF Contract!Next
<1>12. CASE UNCHANGED vars
  BY <1>12 DEF vars, Contract!vars, Open, Opening, Assigned, Ends
<1> QED BY <1>1, <1>2, <1>3, <1>4, <1>5, <1>6, <1>7, <1>8, <1>9, <1>10, <1>11, <1>12 DEF Next

-----------------------------------------------------------------------------
(* The theorems *)

LEMMA InitHolds == Init => IInv
<1> SUFFICES ASSUME Init PROVE IInv
  OBVIOUS
<1>1. TypeOK
  BY IdleLocal DEF Init, TypeOK, Referenced
<1>2. Sound
  BY IdleLocal DEF Init, Sound
<1>3. LocksExclusive
  BY HeldRows DEF Init, Idle, LocksExclusive
<1> QED BY <1>1, <1>2, <1>3 DEF Init, IInv, TestsFitTheirBook

LEMMA NextHolds == IInv /\ [Next]_vars => IInv'
<1> SUFFICES ASSUME IInv, [Next]_vars PROVE IInv'
  OBVIOUS
<1>1. CASE \E s \in Subjects : CreateSubject(s)
  BY <1>1, CreateSubjectStep
<1>2. CASE \E S \in SUBSET Subjects, B \in SUBSET Books : Delete(S, B)
  BY <1>2, DeleteStep
<1>3. CASE \E p \in Tests : DeleteTest(p)
  BY <1>3, DeleteTestStep
<1>4. ASSUME NEW r \in Requests, NEW b \in Books, NEW want \in SUBSET Subjects,
             CreateBook(r, b, want) \/ UpdateBook(r, b, want)
      PROVE  IInv'
  BY <1>4, CreateBookStep, UpdateBookStep
<1>5. ASSUME NEW r \in Requests, NEW p \in Tests, NEW b \in Books, NEW s \in Subjects,
             CreateTest(r, p, b, s)
      PROVE  IInv'
  BY <1>5, CreateTestStep
<1>6. ASSUME NEW r \in Requests, NEW p \in Tests, NEW b \in Books \cup {None},
             NEW s \in Subjects \cup {None}, UpdateTest(r, p, b, s)
      PROVE  IInv'
  BY <1>6, UpdateTestStep
<1>7. ASSUME NEW r \in Requests, BeginSet(r) \/ DeleteLinks(r) \/ CommitSet(r)
      PROVE  IInv'
  BY <1>7, BeginSetStep, DeleteLinksStep, CommitSetStep
<1>8. ASSUME NEW r \in Requests, NEW s \in Subjects, InsertLink(r, s)
      PROVE  IInv'
  BY <1>8, InsertLinkStep
<1>9. ASSUME NEW r \in Requests, InsertTest(r) \/ CheckTest(r) \/ WriteTest(r) \/ Fail(r)
      PROVE  IInv'
  BY <1>9, StoreTestStep, CheckTestStep, FailStep DEF InsertTest, WriteTest, TestStages
<1>10. CASE UNCHANGED vars
  BY <1>10 DEF vars, IInv, TypeOK, Referenced, Sound, FitsSetting, HoldsGround, FitsRow,
               LocksExclusive, Holds, TestsFitTheirBook
<1> QED BY <1>1, <1>2, <1>3, <1>4, <1>5, <1>6, <1>7, <1>8, <1>9, <1>10 DEF Next

\* The strengthened invariant holds in every state of the catalog.
THEOREM Invariance == Spec => []IInv
BY InitHolds, NextHolds, PTL DEF Spec

\* The tables keep their types and no row of test_book_subjects or practice_tests
\* names a subject or a book that was deleted.
THEOREM TypeCorrect == Spec => []TypeOK
<1>1. IInv => TypeOK
  BY DEF IInv
<1> QED BY <1>1, Invariance, PTL

\* No two transactions ever hold the same row of test_book_subjects: the DELETE and
\* the INSERTs of set_subjects wait for each other.
THEOREM LocksAreExclusive == Spec => []LocksExclusive
<1>1. IInv => LocksExclusive
  BY DEF IInv
<1> QED BY <1>1, Invariance, PTL

\* A practice test whose subject update_practice_test or create_practice_test has
\* looked up among the book's is of one of the book's subjects until a set_subjects
\* takes that subject away.
THEOREM TestsFit == Spec => []TestsFitTheirBook
<1>1. IInv => TestsFitTheirBook
  BY DEF IInv
<1> QED BY <1>1, Invariance, PTL
\* The catalog keeps its contract: however statements, locks, failures and cascades
\* interleave, set_subjects replaces in one step, its COMMIT, the subjects the book had
\* when it began, keeps what others gave the book meanwhile, and shows nothing before.
THEOREM Refinement == Spec => ImplementsContract
BY InitContract, StepContract, Invariance, PTL
   DEF Spec, Contract!Spec, ImplementsContract
=============================================================================
