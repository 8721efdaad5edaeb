------------------------- MODULE DescriptorsProofs -------------------------
(***************************************************************************)
(* The counts of open files, for any finite number of processes, any table *)
(* size and any set of files.                                              *)
(***************************************************************************)
EXTENDS Descriptors, FiniteSetTheorems, WellFoundedInduction, TLAPS

Tables == [Procs -> [Fd -> File \cup {Null, Junk}]]
\* The files while nothing else than a file was used as one.
FileStates == [refs : [File -> Nat], inuse : SUBSET File, wild : {{}}]

\* The slots that hold file f.
Held(tab, f) == {s \in Procs \X Fd : tab[s[1]][s[2]] = f}

\* FilesCounted of tables and files that need not be the current ones.
Counted(tab, fs) ==
    /\ \A f \in File : fs.refs[f] = Cardinality(Held(tab, f))
    /\ \A p \in Procs, fd \in Fd : tab[p][fd] \in File => tab[p][fd] \in fs.inuse

\* A process that has not been built holds nothing, so fork() adds the slots of
\* the child to the ones there are.  Nothing but a file is copied from slot to
\* slot, so only the last slot of a table may hold what nothing initialised.
CountInv ==
    /\ DescriptorsTypeOK
    /\ \A p \in Procs : ufdrefs[p] = NoTable => \A fd \in Fd : table[p][fd] = Null
    /\ \A p \in Procs, fd \in Fd : table[p][fd] = Junk => fd = LastFd
    /\ Counted(table, Files)
    /\ wild = {}

\* The slots are finitely many.
LEMMA HeldFinite ==
    ASSUME NEW tab \in Tables, NEW f \in File
    PROVE  IsFiniteSet(Held(tab, f)) /\ Cardinality(Held(tab, f)) \in Nat
<1>1. IsFiniteSet(Fd)
  BY DescriptorsAssumption, FS_Interval DEF Fd
<1>2. IsFiniteSet(Procs \X Fd)
  BY <1>1, DescriptorsAssumption, FS_Product
<1>3. Held(tab, f) \in SUBSET (Procs \X Fd)
  BY DEF Held
<1>4. IsFiniteSet(Held(tab, f))
  BY <1>2, <1>3, FS_Subset
<1> QED
  BY <1>4, FS_CardinalityType

\* Writing v to a slot, and what it does to the slots that hold a file.
Write(tab, p, fd, v) == [tab EXCEPT ![p][fd] = v]

Written(tab, new, p, fd, v) ==
    /\ new \in Tables
    /\ new[p][fd] = v
    /\ \A q \in Procs, g \in Fd : <<q, g>> # <<p, fd>> => new[q][g] = tab[q][g]
    /\ \A f \in File : v = f => Held(new, f) = Held(tab, f) \cup {<<p, fd>>}
    /\ \A f \in File : v # f => Held(new, f) = Held(tab, f) \ {<<p, fd>>}

\* Writing a slot changes that slot only, so a file gains or loses at most it.
LEMMA SlotSet ==
    ASSUME NEW tab \in Tables, NEW p \in Procs, NEW fd \in Fd,
           NEW v \in File \cup {Null, Junk}
    PROVE  Written(tab, Write(tab, p, fd, v), p, fd, v)
<1> DEFINE new == Write(tab, p, fd, v)
<1>1. new \in Tables
  BY DEF Tables, Write
<1>2. new[p][fd] = v
  BY DEF Tables, Write
<1>3. ASSUME NEW q \in Procs, NEW g \in Fd, <<q, g>> # <<p, fd>>
      PROVE  new[q][g] = tab[q][g]
  BY <1>3 DEF Tables, Write
<1> HIDE DEF new
<1>4. ASSUME NEW f \in File
      PROVE  Held(new, f) = IF v = f THEN Held(tab, f) \cup {<<p, fd>>}
                            ELSE Held(tab, f) \ {<<p, fd>>}
  <2>1. ASSUME NEW s \in Procs \X Fd, s # <<p, fd>>
        PROVE  s \in Held(new, f) <=> s \in Held(tab, f)
    <3>1. s[1] \in Procs /\ s[2] \in Fd /\ s = <<s[1], s[2]>>
      OBVIOUS
    <3>2. new[s[1]][s[2]] = tab[s[1]][s[2]]
      BY <1>3, <2>1, <3>1
    <3> QED
      BY <3>2 DEF Held
  <2>2. <<p, fd>> \in Held(new, f) <=> v = f
    BY <1>2 DEF Held
  <2>3. Held(new, f) \subseteq Procs \X Fd /\ Held(tab, f) \subseteq Procs \X Fd
    BY DEF Held
  <2> QED
    BY <2>1, <2>2, <2>3, Zenon
<1> QED
  BY <1>1, <1>2, <1>3, <1>4 DEF Written, new

\* gfdt_put() of the file of a slot that is then cleared keeps the counts, and
\* frees the file only when no other slot holds it.
LEMMA PutKeeps ==
    ASSUME NEW tab \in Tables, NEW fs \in FileStates, Counted(tab, fs),
           NEW p \in Procs, NEW fd \in Fd, tab[p][fd] \in File
    PROVE  /\ gfdt_put(fs, tab[p][fd]) \in FileStates
           /\ Counted(Write(tab, p, fd, Null), gfdt_put(fs, tab[p][fd]))
<1> DEFINE f == tab[p][fd]
           new == Write(tab, p, fd, Null)
           n == IF fs.refs[f] > 0 THEN fs.refs[f] - 1 ELSE 0
           gs == gfdt_put(fs, f)
<1>1. Null \notin File /\ Null \in File \cup {Null, Junk}
  BY DescriptorsAssumption DEF Null
<1>a. Written(tab, new, p, fd, Null)
  BY <1>1, SlotSet, Zenon
<1> HIDE DEF new
<1>2. /\ new \in Tables
      /\ new[p][fd] = Null
      /\ \A q \in Procs, g \in Fd : <<q, g>> # <<p, fd>> => new[q][g] = tab[q][g]
      /\ \A h \in File : Held(new, h) = Held(tab, h) \ {<<p, fd>>}
  BY <1>1, <1>a DEF Written
<1>3. <<p, fd>> \in Held(tab, f) /\ \A h \in File : h # f => <<p, fd>> \notin Held(tab, h)
  BY DEF Held
<1>4. /\ Cardinality(Held(new, f)) = fs.refs[f] - 1
      /\ \A h \in File : h # f => Cardinality(Held(new, h)) = fs.refs[h]
  <2>1. ASSUME NEW h \in File
        PROVE  Cardinality(Held(new, h)) = IF <<p, fd>> \in Held(tab, h)
                                           THEN Cardinality(Held(tab, h)) - 1
                                           ELSE Cardinality(Held(tab, h))
    BY <1>2, HeldFinite, FS_RemoveElement
  <2> QED
    BY <1>3, <2>1 DEF Counted
<1>5. n = fs.refs[f] - 1 /\ n \in Nat
  <2>1. fs.refs[f] \in Nat
    BY DEF FileStates
  <2>2. Cardinality(Held(new, f)) \in Nat
    BY <1>2, HeldFinite
  <2> QED
    BY <1>4, <2>1, <2>2
<1>6. gs = [fs EXCEPT !.refs[f] = n, !.inuse = IF n = 0 THEN @ \ {f} ELSE @]
  BY DEF gfdt_put
<1> HIDE DEF n, gs
<1>7. /\ gs.refs = [fs.refs EXCEPT ![f] = n]
      /\ gs.inuse = IF n = 0 THEN fs.inuse \ {f} ELSE fs.inuse
      /\ gs \in FileStates
  BY <1>5, <1>6 DEF FileStates
<1>8. ASSUME NEW h \in File PROVE gs.refs[h] = Cardinality(Held(new, h))
  BY <1>4, <1>5, <1>7 DEF FileStates
<1>9. ASSUME NEW q \in Procs, NEW g \in Fd, new[q][g] \in File
      PROVE  new[q][g] \in gs.inuse
  <2>1. <<q, g>> # <<p, fd>> /\ new[q][g] = tab[q][g]
    BY <1>1, <1>2, <1>9
  <2>2. tab[q][g] \in fs.inuse
    BY <1>9, <2>1 DEF Counted
  <2>3. CASE n = 0 /\ tab[q][g] = f
    <3>1. Held(new, f) = {}
      BY <1>2, <1>4, <1>5, <2>3, HeldFinite, FS_EmptySet
    <3>2. <<q, g>> \in Held(new, f)
      BY <2>1, <2>3 DEF Held
    <3> QED
      BY <3>1, <3>2
  <2>4. CASE ~(n = 0 /\ tab[q][g] = f)
    BY <1>7, <2>1, <2>2, <2>4
  <2> QED
    BY <2>3, <2>4
<1>10. Counted(new, gs)
  BY <1>8, <1>9 DEF Counted
<1> QED
  BY <1>7, <1>10 DEF new, gs

\* gfdt_get() of a file in use that an empty slot then holds keeps the counts.
LEMMA GetKeeps ==
    ASSUME NEW tab \in Tables, NEW fs \in FileStates, Counted(tab, fs),
           NEW p \in Procs, NEW fd \in Fd, tab[p][fd] = Null,
           NEW f \in File, f \in fs.inuse
    PROVE  /\ gfdt_get(fs, f) \in FileStates
           /\ Counted(Write(tab, p, fd, f), gfdt_get(fs, f))
<1> DEFINE new == Write(tab, p, fd, f)
           gs == gfdt_get(fs, f)
<1>1. Null \notin File
  BY DescriptorsAssumption DEF Null
<1>a. Written(tab, new, p, fd, f)
  <2>1. f \in File \cup {Null, Junk}
    OBVIOUS
  <2> QED
    BY <2>1, SlotSet, Zenon
<1> HIDE DEF new
<1>2. /\ new \in Tables
      /\ new[p][fd] = f
      /\ \A q \in Procs, g \in Fd : <<q, g>> # <<p, fd>> => new[q][g] = tab[q][g]
      /\ Held(new, f) = Held(tab, f) \cup {<<p, fd>>}
      /\ \A h \in File : f # h => Held(new, h) = Held(tab, h) \ {<<p, fd>>}
  BY <1>a DEF Written
<1>3. \A h \in File : <<p, fd>> \notin Held(tab, h)
  BY <1>1 DEF Held
<1>4. /\ Cardinality(Held(new, f)) = fs.refs[f] + 1
      /\ \A h \in File : h # f => Cardinality(Held(new, h)) = fs.refs[h]
  <2>1. Cardinality(Held(tab, f) \cup {<<p, fd>>}) = Cardinality(Held(tab, f)) + 1
    <3>1. IsFiniteSet(Held(tab, f)) /\ <<p, fd>> \notin Held(tab, f)
      BY <1>3, HeldFinite
    <3> QED
      BY <3>1, FS_AddElement
  <2>2. ASSUME NEW h \in File, h # f PROVE Held(new, h) = Held(tab, h)
    <3>1. Held(new, h) = Held(tab, h) \ {<<p, fd>>}
      BY <1>2, <2>2, Zenon
    <3> QED
      BY <1>3, <3>1, Zenon
  <2> QED
    BY <1>2, <2>1, <2>2 DEF Counted
<1>5. gs.refs = [fs.refs EXCEPT ![f] = @ + 1] /\ gs.inuse = fs.inuse /\ gs \in FileStates
  BY DEF gfdt_get, FileStates
<1> HIDE DEF gs
<1>6. ASSUME NEW h \in File PROVE gs.refs[h] = Cardinality(Held(new, h))
  BY <1>4, <1>5 DEF FileStates
<1>7. ASSUME NEW q \in Procs, NEW g \in Fd, new[q][g] \in File
      PROVE  new[q][g] \in gs.inuse
  <2>1. CASE <<q, g>> = <<p, fd>>
    BY <1>2, <1>5, <2>1
  <2>2. CASE <<q, g>> # <<p, fd>>
    BY <1>2, <1>5, <1>7, <2>2 DEF Counted
  <2> QED
    BY <2>1, <2>2
<1>8. Counted(new, gs)
  BY <1>6, <1>7 DEF Counted
<1> QED
  BY <1>5, <1>8 DEF new, gs
-----------------------------------------------------------------------------
\* Whether a call follows what is no file, whatever the files are before it.
Rec(a, b, w) == [refs |-> a, inuse |-> b, wild |-> w]
After(w, f, what) == IF f \in File THEN w ELSE w \cup {what}

More(a, f) == IF f \in File THEN [a EXCEPT ![f] = @ + 1] ELSE a

LEMMA GetRec ==
    ASSUME NEW a, NEW b, NEW w, NEW f
    PROVE  gfdt_get(Rec(a, b, w), f) = Rec(More(a, f), b, After(w, f, "get"))
<1>1. CASE f \in File
  BY <1>1 DEF gfdt_get, Rec, More, After
<1>2. CASE f \notin File
  BY <1>2 DEF gfdt_get, Rec, More, After
<1> QED
  BY <1>1, <1>2

Minus(a, f) == IF a[f] > 0 THEN a[f] - 1 ELSE 0
Less(a, f) == IF f \in File THEN [a EXCEPT ![f] = Minus(a, f)] ELSE a
Left(a, b, f) == IF f \in File /\ Minus(a, f) = 0 THEN b \ {f} ELSE b

LEMMA PutRec ==
    ASSUME NEW a, NEW b, NEW w, NEW f
    PROVE  gfdt_put(Rec(a, b, w), f) = Rec(Less(a, f), Left(a, b, f), After(w, f, "put"))
<1>1. CASE f \in File
  <2>1. gfdt_put(Rec(a, b, w), f)
            = Rec([a EXCEPT ![f] = Minus(a, f)], IF Minus(a, f) = 0 THEN b \ {f} ELSE b, w)
    BY <1>1 DEF gfdt_put, Rec, Minus
  <2> QED
    BY <1>1, <2>1 DEF Less, Left, After
<1>2. CASE f \notin File
  BY <1>2 DEF gfdt_put, Rec, Less, Left, After
<1> QED
  BY <1>1, <1>2

LEMMA FilesRec == Files = Rec(filerefs, inuse, wild)
  BY DEF Files, Rec

LEMMA InstallWild ==
    ASSUME NEW p, NEW fd, NEW f, NEW a, NEW b, NEW w, Install(p, fd, f, Rec(a, b, w))
    PROVE  wild' = {} <=> (w = {} /\ f \in File /\ fd \in Fd)
<1> DEFINE a2 == More(a, f)
<1>1. gfdt_get(Rec(a, b, w), f) = Rec(a2, b, After(w, f, "get"))
  BY GetRec
<1> HIDE DEF a2
<1>2. CASE fd \in Fd
  BY <1>1, <1>2 DEF Install, SetFiles, Rec, After
<1>3. CASE fd \notin Fd
  <2>1. SetFiles([Rec(a2, b, After(w, f, "get"))
                     EXCEPT !.wild = @ \cup {"store"}])
    BY <1>1, <1>3 DEF Install
  <2>2. "store" \in wild'
    BY <2>1 DEF SetFiles, Rec
  <2> QED
    BY <1>3, <2>2
<1> QED
  BY <1>2, <1>3

LEMMA CloseWild ==
    ASSUME NEW p \in Procs, NEW fd \in Fd, CloseFd(p, fd)
    PROVE  wild' = {} <=> (wild = {} /\ table[p][fd] \in File)
<1> DEFINE a2 == Less(filerefs, table[p][fd])
           b2 == Left(filerefs, inuse, table[p][fd])
<1>1. gfdt_put(Rec(filerefs, inuse, wild), table[p][fd])
          = Rec(a2, b2, After(wild, table[p][fd], "put"))
  BY PutRec
<1> HIDE DEF a2, b2
<1> QED
  BY <1>1, FilesRec DEF CloseFd, SetFiles, Rec, After

LEMMA DupWild ==
    ASSUME NEW p \in Procs, NEW fd \in Fd, DupFd(p, fd)
    PROVE  wild' = {} <=> (/\ wild = {}
                           /\ FindNext(table[p]) = MaxNumFds
                                \/ (table[p][fd] \in File /\ FindNext(table[p]) \in Fd))
<1>1. ufdt_add(p, table[p][fd], Rec(filerefs, inuse, wild))
  BY FilesRec DEF DupFd
<1>2. CASE FindNext(table[p]) = MaxNumFds
  BY <1>1, <1>2 DEF ufdt_add, SetFiles, Rec
<1>3. CASE FindNext(table[p]) # MaxNumFds
  BY <1>1, <1>3, InstallWild DEF ufdt_add
<1> QED
  BY <1>2, <1>3

LEMMA OpenWild ==
    ASSUME NEW p \in Procs, OpenFd(p), wild' = {}
    PROVE  wild = {}
<1>1. PICK f \in {CHOOSE f \in File : f \notin inuse} : ufdt_add(p, f, gfdt_obtain(f))
  BY DEF OpenFd
<1>2. gfdt_obtain(f) = Rec([filerefs EXCEPT ![f] = 0], inuse \cup {f}, wild)
  BY DEF gfdt_obtain, Rec
<1>3. CASE FindNext(table[p]) = MaxNumFds
  BY <1>1, <1>2, <1>3 DEF ufdt_add, SetFiles, Rec
<1>4. CASE FindNext(table[p]) # MaxNumFds
  BY <1>1, <1>2, <1>4, InstallWild DEF ufdt_add
<1> QED
  BY <1>3, <1>4

LEMMA Dup2Wild ==
    ASSUME NEW p \in Procs, NEW fd \in Fd, NEW fd2 \in Nat, Dup2Fd(p, fd, fd2)
    PROVE  wild' = {} <=> (/\ wild = {} /\ fd2 \in Fd /\ table[p][fd] \in File
                           /\ table[p][fd2] = Null \/ table[p][fd2] \in File)
<1>1. CASE IsPresent(table[p], fd2)
  <2> DEFINE a2 == Less(filerefs, table[p][fd2])
             b2 == Left(filerefs, inuse, table[p][fd2])
  <2>1. gfdt_put(Rec(filerefs, inuse, wild), table[p][fd2])
            = Rec(a2, b2, After(wild, table[p][fd2], "put"))
    BY PutRec
  <2> HIDE DEF a2, b2
  <2>2. Install(p, fd2, table[p][fd],
                Rec(a2, b2, After(wild, table[p][fd2], "put")))
    BY <1>1, <2>1, FilesRec DEF Dup2Fd
  <2> DEFINE w == After(wild, table[p][fd2], "put")
  <2>3. wild' = {} <=> (w = {} /\ table[p][fd] \in File /\ fd2 \in Fd)
    BY <2>2, InstallWild
  <2> QED
    BY <1>1, <2>3 DEF IsPresent, After
<1>2. CASE ~IsPresent(table[p], fd2)
  <2>1. Install(p, fd2, table[p][fd], Rec(filerefs, inuse, wild))
    BY <1>2, FilesRec DEF Dup2Fd
  <2> QED
    BY <1>2, <2>1, InstallWild DEF IsPresent
<1> QED
  BY <1>1, <1>2

\* What was done to other memory is never forgotten.
LEMMA WildGrows ==
    ASSUME DescriptorsNext, wild' = {}
    PROVE  wild = {}
<1>1. PICK p \in Procs :
        /\ ufdrefs[p] = 1
        /\ \/ \E c \in Procs : ufdrefs[c] = NoTable /\ DupContext(p, c)
           \/ PutContext(p)
           \/ OpenFd(p)
           \/ \E fd \in Fd : CloseFd(p, fd) \/ DupFd(p, fd)
           \/ \E fd \in Fd, fd2 \in Nat : Dup2Fd(p, fd, fd2)
  BY DEF DescriptorsNext
<1>2. ASSUME NEW c \in Procs, DupContext(p, c) PROVE wild = {}
  BY <1>2 DEF DupContext
<1>3. ASSUME PutContext(p) PROVE wild = {}
  BY <1>1, <1>3 DEF PutContext
<1> QED
  BY <1>1, <1>2, <1>3, OpenWild, CloseWild, DupWild, Dup2Wild, Zenon
-----------------------------------------------------------------------------
\* What the invariant says of the types, in the terms of the lemmas.
LEMMA Typed ==
    ASSUME DescriptorsTypeOK, wild = {}
    PROVE  table \in Tables /\ Files \in FileStates
           /\ Files.refs = filerefs /\ Files.inuse = inuse /\ Files.wild = {}
  BY DEF DescriptorsTypeOK, Tables, FileStates, Files

\* A call of process p that writes one slot of its table keeps the invariant when
\* the counts are kept.
LEMMA CallKeeps ==
    ASSUME CountInv, NEW p \in Procs, ufdrefs[p] = 1, UNCHANGED ufdrefs,
           NEW fs \in FileStates, SetFiles(fs),
           NEW fd \in Fd, NEW v \in File \cup {Null},
           table' = Write(table, p, fd, v),
           Counted(table', fs)
    PROVE  CountInv'
<1>1. table \in Tables
  BY Typed DEF CountInv
<1>2. /\ table' \in Tables
      /\ table'[p][fd] # Junk
      /\ \A q \in Procs, g \in Fd : <<q, g>> # <<p, fd>> => table'[q][g] = table[q][g]
  <2>1. Written(table, table', p, fd, v)
    BY <1>1, SlotSet
  <2>2. v # Junk
    BY DescriptorsAssumption DEF Null, Junk
  <2> QED
    BY <2>1, <2>2 DEF Written
<1>3. filerefs' = fs.refs /\ inuse' = fs.inuse /\ wild' = {}
  BY DEF SetFiles, FileStates
<1>4. DescriptorsTypeOK'
  BY <1>2, <1>3 DEF CountInv, DescriptorsTypeOK, Tables, FileStates
<1>5. ASSUME NEW q \in Procs, ufdrefs'[q] = NoTable, NEW g \in Fd
      PROVE  table'[q][g] = Null
  <2>1. q # p
    BY <1>5 DEF NoTable
  <2> QED
    BY <1>2, <1>5, <2>1 DEF CountInv
<1>6. Counted(table, Files)'
  BY <1>3 DEF Counted, Files
<1>7. ASSUME NEW q \in Procs, NEW g \in Fd, table'[q][g] = Junk
      PROVE  g = LastFd
  BY <1>2, <1>7 DEF CountInv
<1>8. LastFd' = LastFd
  BY DEF LastFd
<1> QED
  BY <1>3, <1>4, <1>5, <1>6, <1>7, <1>8 DEF CountInv

\* A set of numbers that is not empty has a least one.
LEMMA Least ==
    ASSUME NEW S \in SUBSET Nat, S # {}
    PROVE  \E m \in S : \A n \in S : m <= n
<1> DEFINE R == OpToRel(<, Nat)
<1>1. IsWellFoundedOn(R, Nat)
  BY NatLessThanWellFounded
<1>2. \A x, y \in Nat : x < y => <<x, y>> \in R
  BY DEF OpToRel
<1> HIDE DEF R
<1>3. PICK x \in S : \A y \in S : ~(<<y, x>> \in R)
  BY <1>1, WFMin
<1>4. ASSUME NEW y \in S PROVE x <= y
  <2>1. ~(y < x)
    BY <1>2, <1>3, Zenon
  <2> QED
    BY <2>1
<1> QED
  BY <1>4

\* The slot that __ufdt_find_next() gives is an empty one.
LEMMA NextFree ==
    ASSUME NEW tab \in [Fd -> File \cup {Null, Junk}], FindNext(tab) # MaxNumFds
    PROVE  FindNext(tab) \in Fd /\ tab[FindNext(tab)] = Null
<1> DEFINE free == {fd \in Fd : ~IsPresent(tab, fd)}
<1>1. free # {} /\ FindNext(tab) = CHOOSE fd \in free : \A g \in free : fd <= g
  BY DEF FindNext
<1>2. free \in SUBSET Nat
  BY DescriptorsAssumption DEF Fd
<1>3. \E fd \in free : \A g \in free : fd <= g
  <2> HIDE DEF free
  <2> QED
    BY <1>1, <1>2, Least
<1>4. FindNext(tab) \in free
  BY <1>1, <1>3
<1> QED
  BY <1>4 DEF IsPresent

\* Installing a file in use in an empty slot, from files that count the tables.
LEMMA InstallKeeps ==
    ASSUME CountInv, NEW p \in Procs, ufdrefs[p] = 1, UNCHANGED ufdrefs,
           NEW fs \in FileStates, Counted(table, fs),
           NEW fd \in Fd, table[p][fd] = Null,
           NEW f \in File, f \in fs.inuse, Install(p, fd, f, fs)
    PROVE  CountInv'
<1>1. table \in Tables
  BY Typed DEF CountInv
<1>2. gfdt_get(fs, f) \in FileStates /\ Counted(Write(table, p, fd, f), gfdt_get(fs, f))
  BY <1>1, GetKeeps, Zenon
<1>3. table' = Write(table, p, fd, f) /\ SetFiles(gfdt_get(fs, f))
  BY DEF Install, Write
<1>4. f \in File \cup {Null}
  OBVIOUS
<1>5. Counted(table', gfdt_get(fs, f))
  BY <1>2, <1>3, Zenon
<1> QED
  BY <1>2, <1>3, <1>4, <1>5, CallKeeps, Zenon

\* ufdt_add(), of a new file or of one that a slot holds.
LEMMA AddKeeps ==
    ASSUME CountInv, NEW p \in Procs, ufdrefs[p] = 1, UNCHANGED ufdrefs,
           NEW fs \in FileStates, Counted(table, fs),
           NEW f \in File, f \in fs.inuse, ufdt_add(p, f, fs)
    PROVE  CountInv'
<1>1. table \in Tables
  BY Typed DEF CountInv
<1>2. CASE FindNext(table[p]) = MaxNumFds
  <2>1. table' = table /\ filerefs' = fs.refs /\ inuse' = fs.inuse /\ wild' = {}
    BY <1>2 DEF ufdt_add, SetFiles, FileStates
  <2>2. DescriptorsTypeOK'
    BY <2>1 DEF CountInv, DescriptorsTypeOK, FileStates
  <2>3. Counted(table, Files)'
    BY <2>1 DEF Counted, Files
  <2> QED
    BY <2>1, <2>2, <2>3 DEF CountInv
<1>3. CASE FindNext(table[p]) # MaxNumFds
  <2>1. table[p] \in [Fd -> File \cup {Null, Junk}]
    BY <1>1 DEF Tables
  <2>2. FindNext(table[p]) \in Fd /\ table[p][FindNext(table[p])] = Null
    BY <1>3, <2>1, NextFree, Zenon
  <2>3. Install(p, FindNext(table[p]), f, fs)
    BY <1>3 DEF ufdt_add
  <2> QED
    BY <2>2, <2>3, InstallKeeps, Zenon
<1> QED
  BY <1>2, <1>3

\* A file taken from the cache is one that no slot holds.
LEMMA OpenKeeps ==
    ASSUME CountInv, NEW p \in Procs, ufdrefs[p] = 1, OpenFd(p)
    PROVE  CountInv'
<1>1. PICK f \in {CHOOSE f \in File : f \notin inuse} : ufdt_add(p, f, gfdt_obtain(f))
  BY DEF OpenFd
<1>2. f \in File /\ f \notin inuse
  BY DEF OpenFd, CountInv, DescriptorsTypeOK
<1> DEFINE fs == gfdt_obtain(f)
<1>3. /\ fs \in FileStates
      /\ fs.refs = [filerefs EXCEPT ![f] = 0]
      /\ fs.inuse = inuse \cup {f}
  BY <1>2 DEF gfdt_obtain, FileStates, CountInv, DescriptorsTypeOK
<1> HIDE DEF fs
<1>4. Counted(table, fs)
  <2>1. table \in Tables /\ Files.refs = filerefs /\ Files.inuse = inuse
    BY Typed DEF CountInv
  <2>2. Held(table, f) = {}
    BY <1>2, <2>1 DEF Held, CountInv, Counted
  <2>3. ASSUME NEW h \in File PROVE fs.refs[h] = Cardinality(Held(table, h))
    <3>1. CASE h = f
      BY <1>2, <1>3, <2>2, <3>1, FS_EmptySet DEF CountInv, DescriptorsTypeOK
    <3>2. CASE h # f
      BY <1>3, <2>1, <3>2 DEF CountInv, Counted, DescriptorsTypeOK
    <3> QED
      BY <3>1, <3>2
  <2>4. ASSUME NEW q \in Procs, NEW g \in Fd, table[q][g] \in File
        PROVE  table[q][g] \in fs.inuse
    BY <1>3, <2>1, <2>4 DEF CountInv, Counted
  <2> QED
    BY <2>3, <2>4 DEF Counted
<1>5. f \in fs.inuse /\ ufdt_add(p, f, fs) /\ UNCHANGED ufdrefs
  BY <1>1, <1>3 DEF fs, OpenFd
<1> QED
  BY <1>2, <1>3, <1>4, <1>5, AddKeeps, Zenon

\* close() gives the file of the slot back.
LEMMA CloseKeeps ==
    ASSUME CountInv, NEW p \in Procs, ufdrefs[p] = 1, NEW fd \in Fd, CloseFd(p, fd),
           wild' = {}
    PROVE  CountInv'
<1>1. table \in Tables /\ Files \in FileStates /\ Counted(table, Files)
  BY Typed DEF CountInv
<1>2. table[p][fd] \in File
  BY CloseWild
<1> DEFINE gs == gfdt_put(Files, table[p][fd])
<1>3. gs \in FileStates /\ Counted(Write(table, p, fd, Null), gs)
  BY <1>1, <1>2, PutKeeps, Zenon
<1>4. table' = Write(table, p, fd, Null) /\ SetFiles(gs) /\ UNCHANGED ufdrefs
  BY DEF CloseFd, Write
<1> HIDE DEF gs
<1>5. Null \in File \cup {Null}
  OBVIOUS
<1>6. Counted(table', gs)
  BY <1>3, <1>4, Zenon
<1> QED
  BY <1>3, <1>4, <1>5, <1>6, CallKeeps, Zenon

LEMMA StutterKeeps ==
    ASSUME CountInv, UNCHANGED fdVars
    PROVE  CountInv'
  BY DEF fdVars, CountInv, DescriptorsTypeOK, Counted, Held, Files, LastFd

\* A file that a slot holds is in use.
LEMMA DupKeeps ==
    ASSUME CountInv, NEW p \in Procs, ufdrefs[p] = 1, NEW fd \in Fd, DupFd(p, fd),
           wild' = {}
    PROVE  CountInv'
<1>1. Files \in FileStates /\ Counted(table, Files)
  BY Typed DEF CountInv
<1>2. ufdt_add(p, table[p][fd], Files) /\ UNCHANGED ufdrefs
  BY DEF DupFd
<1>3. CASE table[p][fd] \in File
  <2>1. table[p][fd] \in Files.inuse
    BY <1>1, <1>3 DEF Counted
  <2> QED
    BY <1>1, <1>2, <1>3, <2>1, AddKeeps, Zenon
<1>4. CASE table[p][fd] \notin File
  <2>1. FindNext(table[p]) = MaxNumFds
    BY <1>4, DupWild
  <2>2. UNCHANGED fdVars
    BY <1>2, <2>1 DEF ufdt_add, SetFiles, Files, fdVars
  <2> QED
    BY <2>2, StutterKeeps
<1> QED
  BY <1>3, <1>4

\* dup2() gives back the file that the slot held first: the file it then installs
\* is still in use, even when it is that same file, because slot fd holds it.
LEMMA Dup2Keeps ==
    ASSUME CountInv, NEW p \in Procs, ufdrefs[p] = 1, NEW fd \in Fd, NEW fd2 \in Nat,
           Dup2Fd(p, fd, fd2), wild' = {}
    PROVE  CountInv'
<1> DEFINE f == table[p][fd]
           old == table[p][fd2]
           gs == gfdt_put(Files, old)
           mid == Write(table, p, fd2, Null)
<1>1. table \in Tables /\ Files \in FileStates /\ Counted(table, Files)
  BY Typed DEF CountInv
<1>2. f \in File /\ fd # fd2 /\ fd2 \in Fd /\ UNCHANGED ufdrefs
  BY Dup2Wild DEF Dup2Fd
<1>3. old = Null \/ old \in File
  BY Dup2Wild
<1>4. CASE old = Null
  <2>1. Install(p, fd2, f, Files)
    BY <1>4 DEF Dup2Fd, IsPresent
  <2>2. f \in Files.inuse
    BY <1>1, <1>2 DEF Counted
  <2> QED
    BY <1>1, <1>2, <1>4, <2>1, <2>2, InstallKeeps, Zenon
<1>5. CASE old # Null
  <2>1. old \in File
    BY <1>2, <1>3, <1>5
  <2>2. Install(p, fd2, f, gs)
    BY <1>2, <1>5 DEF Dup2Fd, IsPresent
  <2>3. gs \in FileStates /\ Counted(mid, gs)
    BY <1>1, <1>2, <2>1, PutKeeps, Zenon
  <2>4. Written(table, mid, p, fd2, Null)
    <3>1. Null \in File \cup {Null, Junk}
      OBVIOUS
    <3> QED
      BY <1>1, <1>2, <3>1, SlotSet, Zenon
  <2>5. table' = Write(mid, p, fd2, f) /\ SetFiles(gfdt_get(gs, f))
    <3>1. table' = [table EXCEPT ![p][fd2] = f] /\ SetFiles(gfdt_get(gs, f))
      BY <1>2, <2>2 DEF Install
    <3>2. [table EXCEPT ![p][fd2] = f] = Write(mid, p, fd2, f)
      BY <1>1 DEF Write, Tables
    <3> QED
      BY <3>1, <3>2
  <2> HIDE DEF gs, mid
  <2>6. mid \in Tables /\ mid[p][fd2] = Null /\ mid[p][fd] = f
    BY <1>2, <2>4 DEF Written
  <2>7. f \in gs.inuse
    BY <1>2, <2>3, <2>6 DEF Counted
  <2> HIDE DEF f
  <2>8. gfdt_get(gs, f) \in FileStates /\ Counted(Write(mid, p, fd2, f), gfdt_get(gs, f))
    BY <1>2, <2>3, <2>6, <2>7, GetKeeps, Zenon
  <2>9. table' = Write(table, p, fd2, f)
    BY <1>2, <2>2 DEF Install, Write
  <2>10. Counted(table', gfdt_get(gs, f)) /\ f \in File \cup {Null}
    BY <1>2, <2>5, <2>8, Zenon
  <2> QED
    BY <1>2, <2>5, <2>8, <2>9, <2>10, CallKeeps, Zenon
<1> QED
  BY <1>4, <1>5

\* put_ufds() of a table that one process refers to does not destroy it.
LEMMA PutContextKeeps ==
    ASSUME CountInv, NEW p \in Procs, ufdrefs[p] = 1, PutContext(p)
    PROVE  CountInv'
<1>1. UNCHANGED <<filerefs, inuse, table, wild>> /\ ufdrefs' = [ufdrefs EXCEPT ![p] = 0]
  BY DEF PutContext, CountInv, DescriptorsTypeOK
<1> QED
  BY <1>1 DEF CountInv, DescriptorsTypeOK, NoTable, Counted, Held, Files

\* fork(): the slots of the child are the parent's without the last, and none of
\* them was counted before.
LEMMA DupContextKeeps ==
    ASSUME CountInv, NEW p \in Procs, ufdrefs[p] = 1,
           NEW c \in Procs, ufdrefs[c] = NoTable, DupContext(p, c), wild' = {}
    PROVE  CountInv'
<1>1. PICK last \in {Null, Junk} : table' = [table EXCEPT ![c] = [table[p] EXCEPT ![LastFd] = last]]
  BY DEF DupContext, Copies
<1>2. table \in Tables /\ Files \in FileStates /\ Files.refs = filerefs /\ Files.inuse = inuse
  BY Typed DEF CountInv
<1>3. LastFd \in Fd /\ last \notin File /\ Null \notin File
  BY DescriptorsAssumption DEF LastFd, Fd, Null, Junk
<1>4. /\ table' \in Tables
      /\ \A fd \in Fd : table'[c][fd] = IF fd = LastFd THEN last ELSE table[p][fd]
      /\ \A q \in Procs \ {c} : table'[q] = table[q]
  BY <1>1, <1>2, <1>3 DEF Tables
<1>5. \A fd \in Fd : table[c][fd] = Null
  BY DEF CountInv
<1>6. ufdrefs' = [ufdrefs EXCEPT ![c] = 1] /\ UNCHANGED inuse
  BY DEF DupContext
<1>7. ASSUME NEW f \in File
      PROVE  filerefs'[f] = Cardinality(Held(table', f)) /\ filerefs'[f] \in Nat
  <2> DEFINE S == Slots(table[p], f) \ {LastFd}
  <2>1. Held(table', f) = Held(table, f) \cup ({c} \X S)
    <3>1. ASSUME NEW q \in Procs, NEW fd \in Fd
          PROVE  <<q, fd>> \in Held(table', f)
                     <=> <<q, fd>> \in Held(table, f) \/ (q = c /\ fd \in S)
      BY <1>3, <1>4, <1>5 DEF Held, Slots
    <3>2. Held(table', f) \subseteq Procs \X Fd /\ Held(table, f) \subseteq Procs \X Fd
      BY DEF Held
    <3>3. S \subseteq Fd
      BY DEF Slots
    <3> HIDE DEF S
    <3> QED
      BY <3>1, <3>2, <3>3
  <2>2. Held(table, f) \cap ({c} \X S) = {}
    BY <1>3, <1>5 DEF Held
  <2>3. IsFiniteSet(S)
    <3>1. IsFiniteSet(Fd)
      BY DescriptorsAssumption, FS_Interval DEF Fd
    <3>2. S \in SUBSET Fd
      BY DEF Slots
    <3> QED
      BY <3>1, <3>2, FS_Subset
  <2> HIDE DEF S
  <2>4. IsFiniteSet({c} \X S) /\ Cardinality({c} \X S) = Cardinality(S) /\ Cardinality(S) \in Nat
    <3>1. IsFiniteSet({c}) /\ Cardinality({c}) = 1
      BY FS_Singleton
    <3>2. Cardinality(S) \in Nat
      BY <2>3, FS_CardinalityType
    <3>3. IsFiniteSet({c} \X S) /\ Cardinality({c} \X S) = Cardinality({c}) * Cardinality(S)
      BY <2>3, <3>1, FS_Product
    <3> QED
      BY <3>1, <3>2, <3>3
  <2>5. IsFiniteSet(Held(table, f)) /\ Cardinality(Held(table, f)) \in Nat
    BY <1>2, HeldFinite
  <2>6. Cardinality(Held(table, f) \cup ({c} \X S))
            = Cardinality(Held(table, f)) + Cardinality({c} \X S) - Cardinality({})
    BY <2>2, <2>4, <2>5, FS_Union
  <2>7. filerefs'[f] = filerefs[f] + Cardinality(S)
    BY DEF DupContext, S
  <2>8. filerefs[f] = Cardinality(Held(table, f))
    BY <1>2 DEF CountInv, Counted
  <2> QED
    BY <2>1, <2>4, <2>5, <2>6, <2>7, <2>8, FS_EmptySet
<1>8. filerefs' \in [File -> Nat]
  <2>1. filerefs' = [f \in File |-> filerefs[f] + Cardinality(Slots(table[p], f) \ {LastFd})]
    BY DEF DupContext
  <2> QED
    BY <1>7, <2>1
<1>9. DescriptorsTypeOK'
  BY <1>4, <1>6, <1>8 DEF CountInv, DescriptorsTypeOK, Tables, NoTable
<1>10. ASSUME NEW q \in Procs, ufdrefs'[q] = NoTable, NEW fd \in Fd
       PROVE  table'[q][fd] = Null
  <2>1. q # c
    BY <1>6, <1>10 DEF NoTable, CountInv, DescriptorsTypeOK
  <2> QED
    BY <1>4, <1>6, <1>10, <2>1 DEF CountInv, DescriptorsTypeOK
<1>11. ASSUME NEW q \in Procs, NEW fd \in Fd, table'[q][fd] \in File
       PROVE  table'[q][fd] \in inuse'
  <2>1. CASE q = c
    BY <1>2, <1>3, <1>4, <1>6, <1>11, <2>1 DEF CountInv, Counted
  <2>2. CASE q # c
    BY <1>2, <1>4, <1>6, <1>11, <2>2 DEF CountInv, Counted
  <2> QED
    BY <2>1, <2>2
<1>12. Counted(table, Files)'
  BY <1>7, <1>11 DEF Counted, Files
<1>13. ASSUME NEW q \in Procs, NEW fd \in Fd, table'[q][fd] = Junk
       PROVE  fd = LastFd
  BY <1>4, <1>13 DEF CountInv
<1>14. LastFd' = LastFd
  BY DEF LastFd
<1> QED
  BY <1>9, <1>10, <1>12, <1>13, <1>14 DEF CountInv
-----------------------------------------------------------------------------
LEMMA InitCounts ==
    ASSUME NEW root \in Procs, DescriptorsInit(root)
    PROVE  CountInv
<1>1. PICK new \in Fresh : table = [p \in Procs |-> IF p = root THEN new ELSE [fd \in Fd |-> Null]]
  BY DEF DescriptorsInit
<1>2. Null \notin File /\ Junk \notin File
  BY DescriptorsAssumption DEF Null, Junk
<1>3. new \in [Fd -> {Null, Junk}] /\ \A fd \in Fd : new[fd] = Junk => fd = LastFd
  BY DEF Fresh, Null, Junk
<1>4. DescriptorsTypeOK
  BY <1>1, <1>3 DEF DescriptorsInit, DescriptorsTypeOK, NoTable
<1>5. \A p \in Procs, fd \in Fd : table[p][fd] \notin File
  BY <1>1, <1>2, <1>3
<1>6. \A f \in File : Held(table, f) = {}
  BY <1>5 DEF Held
<1>7. Counted(table, Files)
  BY <1>5, <1>6, FS_EmptySet DEF Counted, Files, DescriptorsInit
<1>8. \A p \in Procs : ufdrefs[p] = NoTable => \A fd \in Fd : table[p][fd] = Null
  BY <1>1 DEF DescriptorsInit, NoTable
<1>9. \A p \in Procs, fd \in Fd : table[p][fd] = Junk => fd = LastFd
  BY <1>1, <1>3 DEF Null, Junk
<1> QED
  BY <1>4, <1>7, <1>8, <1>9 DEF CountInv, DescriptorsInit

LEMMA NextCounts ==
    ASSUME wild = {} => CountInv, [DescriptorsNext]_fdVars
    PROVE  (wild = {} => CountInv)'
<1> SUFFICES ASSUME wild' = {} PROVE CountInv'
  OBVIOUS
<1>1. CASE DescriptorsNext
  <2>1. CountInv
    BY <1>1, WildGrows
  <2>2. PICK p \in Procs :
          /\ ufdrefs[p] = 1
          /\ \/ \E c \in Procs : ufdrefs[c] = NoTable /\ DupContext(p, c)
             \/ PutContext(p)
             \/ OpenFd(p)
             \/ \E fd \in Fd : CloseFd(p, fd) \/ DupFd(p, fd)
             \/ \E fd \in Fd, fd2 \in Nat : Dup2Fd(p, fd, fd2)
    BY <1>1 DEF DescriptorsNext
  <2> QED
    BY <2>1, <2>2, DupContextKeeps, PutContextKeeps, OpenKeeps, CloseKeeps, DupKeeps,
       Dup2Keeps, Zenon
<1>2. CASE UNCHANGED fdVars
  BY <1>2, StutterKeeps DEF fdVars
<1> QED
  BY <1>1, <1>2

\* Through any sequence of open, close, dup, dup2, fork and exit by any processes,
\* the count of every file is the number of slots that hold it, and a slot never
\* holds a file that was freed, until a call follows a slot that nothing
\* initialised or stores behind a table.  WildTheorem says when that happens.
THEOREM FilesTheorem ==
    ASSUME NEW root \in Procs
    PROVE  DescriptorsSpec(root) => []FilesCounted
<1>1. DescriptorsInit(root) => (wild = {} => CountInv)
  BY InitCounts
<1>2. (wild = {} => CountInv) /\ [DescriptorsNext]_fdVars => (wild = {} => CountInv)'
  BY NextCounts
<1>3. (wild = {} => CountInv) => FilesCounted
  BY Typed DEF CountInv, Counted, FilesCounted, Held
<1> QED
  BY <1>1, <1>2, <1>3, PTL DEF DescriptorsSpec

\* The calls that may go astray: dup2() to a number behind the table, and those of
\* a process whose last slot held something when its table was built.
Astray ==
    \E p \in Procs :
        /\ ufdrefs[p] = 1
        /\ \/ table[p][LastFd] = Junk
           \/ \E fd \in Fd, fd2 \in Nat \ Fd : Dup2Fd(p, fd, fd2)

\* A step is the first to follow what is no file, or to store behind a table, only
\* if it is dup2() to a number behind the table, or some process still has the last
\* slot as ufd_context_build() or ufd_context_dup() left it.
THEOREM WildTheorem ==
    ASSUME NEW root \in Procs
    PROVE  DescriptorsSpec(root) => [][wild = {} /\ wild' # {} => Astray]_fdVars
<1>1. DescriptorsInit(root) => (wild = {} => CountInv)
  BY InitCounts
<1>2. (wild = {} => CountInv) /\ [DescriptorsNext]_fdVars => (wild = {} => CountInv)'
  BY NextCounts
<1>3. (wild = {} => CountInv) /\ [DescriptorsNext]_fdVars
        => [wild = {} /\ wild' # {} => Astray]_fdVars
  <2> SUFFICES ASSUME CountInv, wild = {}, wild' # {}, DescriptorsNext, ~Astray PROVE FALSE
    BY DEF fdVars
  <2>1. PICK p \in Procs :
          /\ ufdrefs[p] = 1
          /\ \/ \E c \in Procs : ufdrefs[c] = NoTable /\ DupContext(p, c)
             \/ PutContext(p)
             \/ OpenFd(p)
             \/ \E fd \in Fd : CloseFd(p, fd) \/ DupFd(p, fd)
             \/ \E fd \in Fd, fd2 \in Nat : Dup2Fd(p, fd, fd2)
    BY DEF DescriptorsNext
  <2>2. \A fd \in Fd : table[p][fd] = Null \/ table[p][fd] \in File
    <3>1. \A fd \in Fd : table[p][fd] # Junk
      BY <2>1 DEF Astray, CountInv
    <3> QED
      BY <3>1 DEF CountInv, DescriptorsTypeOK
  <2>3. ASSUME NEW c \in Procs, DupContext(p, c) PROVE FALSE
    BY <2>2, <2>3, DescriptorsAssumption DEF DupContext, Null, Junk
  <2>4. ASSUME PutContext(p) PROVE FALSE
    BY <2>1, <2>4 DEF PutContext
  <2>5. ASSUME OpenFd(p) PROVE FALSE
    BY <2>1, <2>5, OpenKeeps DEF CountInv
  <2>6. ASSUME NEW fd \in Fd, CloseFd(p, fd) PROVE FALSE
    BY <2>2, <2>6, CloseWild DEF CloseFd, Holds, IsPresent
  <2>7. ASSUME NEW fd \in Fd, DupFd(p, fd) PROVE FALSE
    <3>1. table[p] \in [Fd -> File \cup {Null, Junk}]
      BY DEF CountInv, DescriptorsTypeOK
    <3>2. table[p][fd] \in File
      BY <2>2, <2>7 DEF DupFd, Holds, IsPresent
    <3>3. FindNext(table[p]) # MaxNumFds => FindNext(table[p]) \in Fd
      BY <3>1, NextFree
    <3> QED
      BY <2>7, <3>2, <3>3, DupWild
  <2>8. ASSUME NEW fd \in Fd, NEW fd2 \in Nat, Dup2Fd(p, fd, fd2) PROVE FALSE
    <3>1. fd2 \in Fd
      BY <2>1, <2>8 DEF Astray
    <3>2. table[p][fd] \in File
      BY <2>2, <2>8 DEF Dup2Fd, Holds, IsPresent
    <3> QED
      BY <2>2, <2>8, <3>1, <3>2, Dup2Wild
  <2> QED
    BY <2>1, <2>3, <2>4, <2>5, <2>6, <2>7, <2>8, Zenon
<1> QED
  BY <1>1, <1>2, <1>3, PTL DEF DescriptorsSpec
=============================================================================
