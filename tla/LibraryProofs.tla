---------------------------- MODULE LibraryProofs -----------------------------
(***************************************************************************)
(* For any number of documents, folders, branches and requests: the        *)
(* library stays whole whatever two requests decide on the same tables,    *)
(* and a request that still fits is never refused for the order in which   *)
(* its statements reach the constraints of the tables.  With the           *)
(* invariants of shares, tokens and conversations: all of DocumentServices *)
(* keeps its types.                                                        *)
(***************************************************************************)
EXTENDS AiChatProofs, WellFoundedInduction, FiniteSetTheorems

-----------------------------------------------------------------------------
(* Counting up                                                             *)

LEMMA Least ==
    ASSUME NEW T, T \subseteq Nat, T # {}
    PROVE  \E n \in T : \A m \in T : n <= m
  <1> DEFINE R == {ss \in Nat \X Nat : ss[1] < ss[2]}
  <1>1. OpToRel(<, Nat) = R
    BY DEF OpToRel
  <1>2. IsWellFoundedOn(R, Nat)
    BY <1>1, NatLessThanWellFounded
  <1> HIDE DEF R
  <1>3. PICK n \in T : \A m \in T : ~(<<m, n>> \in R)
    BY <1>2, WFMin
  <1>4. ASSUME NEW m \in T PROVE n <= m
    <2>1. m \in Nat /\ n \in Nat /\ <<m, n>> \in Nat \X Nat
      OBVIOUS
    <2>2. <<m, n>>[1] = m /\ <<m, n>>[2] = n
      OBVIOUS
    <2>3. ~(m < n)
      BY <1>3, <2>1, <2>2 DEF R
    <2> QED BY <2>1, <2>3
  <1> QED BY <1>4

LEMMA Induction ==
    ASSUME NEW S, 0 \in S, \A n \in Nat : n \in S => n + 1 \in S
    PROVE  Nat \subseteq S
  <1> SUFFICES ASSUME Nat \ S # {} PROVE FALSE
    OBVIOUS
  <1>1. PICK n \in Nat \ S : \A m \in Nat \ S : n <= m
    BY Least
  <1>2. n - 1 \in Nat /\ n - 1 \in S
    BY <1>1
  <1> QED BY <1>1, <1>2

\* A loop has a result after each of its steps: what the step makes of the last one.
Results(S, first, N, step, g) ==
    /\ g \in [0 .. N -> S]
    /\ g[0] = first /\ \A n \in 1 .. N : g[n] = step[n][g[n - 1]]

LEMMA Loop ==
    ASSUME NEW S, NEW first \in S, NEW N \in Nat, NEW step \in [1 .. N -> [S -> S]]
    PROVE  \E g : Results(S, first, N, step, g)
  <1> DEFINE Done(m, g) == g[0] = first /\ \A n \in 1 .. m : g[n] = step[n][g[n - 1]]
             T == {m \in Nat : m <= N => \E g \in [0 .. m -> S] : Done(m, g)}
  <1>1. 0 \in T
    <2> DEFINE g == [n \in 0 .. 0 |-> first]
    <2>1. g \in [0 .. 0 -> S] /\ Done(0, g)
      OBVIOUS
    <2> HIDE DEF g
    <2> QED BY <2>1
  <1>2. ASSUME NEW m \in Nat, m \in T PROVE m + 1 \in T
    <2> SUFFICES ASSUME m + 1 <= N PROVE \E g \in [0 .. m + 1 -> S] : Done(m + 1, g)
      OBVIOUS
    <2>1. PICK g \in [0 .. m -> S] : Done(m, g)
      BY <1>2
    <2> HIDE DEF Done
    <2> DEFINE h == [n \in 0 .. m + 1 |-> IF n = m + 1 THEN step[m + 1][g[m]] ELSE g[n]]
    <2>2. step[m + 1][g[m]] \in S
      OBVIOUS
    <2>3. h \in [0 .. m + 1 -> S]
      BY <2>2
    <2>4. \A n \in 0 .. m : h[n] = g[n]
      OBVIOUS
    <2>5. h[m + 1] = step[m + 1][g[m]]
      OBVIOUS
    <2> HIDE DEF h
    <2>6. ASSUME NEW n \in 1 .. m + 1 PROVE h[n] = step[n][h[n - 1]]
      <3>1. CASE n = m + 1
        <4>1. h[n - 1] = g[m]
          BY <3>1, <2>4
        <4> QED BY <3>1, <4>1, <2>5
      <3>2. CASE n \in 1 .. m
        <4>1. h[n - 1] = g[n - 1] /\ h[n] = g[n]
          BY <3>2, <2>4
        <4> QED BY <3>2, <4>1, <2>1 DEF Done
      <3> QED BY <3>1, <3>2
    <2>7. h[0] = first
      BY <2>1, <2>4 DEF Done
    <2> QED BY <2>3, <2>6, <2>7 DEF Done
  <1>3. N \in T
    <2> HIDE DEF T
    <2> QED BY <1>1, <1>2, Induction
  <1> QED BY <1>3 DEF Results

-----------------------------------------------------------------------------
(* Paths                                                                   *)

LEMMA PathsAreSequences ==
    ASSUME NEW k \in Int
    PROVE  \A p : p \in PathsOf(k) <=> p \in Seq(Names) /\ Len(p) \in 1 .. k
  BY DEF PathsOf

LEMMA PathKinds ==
    /\ \A p : p \in DocumentPaths \cup {Root} <=> p \in Seq(Names) /\ Len(p) <= MaxDepth
    /\ \A p : p \in FolderPaths \cup {Root} <=> p \in Seq(Names) /\ Len(p) < MaxDepth
    /\ \A p \in FolderPaths : Len(p) > 0
  <1>1. MaxDepth \in Nat /\ MaxDepth > 0 /\ MaxDepth - 1 \in Int
    BY LibraryAssumption
  <1>2. Root \in Seq(Names) /\ Len(Root) = 0
    BY DEF Root
  <1>3. \A p \in Seq(Names) : Len(p) = 0 => p = Root
    BY DEF Root
  <1>4. \A p \in Seq(Names) : Len(p) \in Nat
    OBVIOUS
  <1>5. \A p : p \in DocumentPaths <=> p \in Seq(Names) /\ Len(p) \in 1 .. MaxDepth
    BY <1>1, PathsAreSequences DEF DocumentPaths
  <1>6. \A p : p \in FolderPaths <=> p \in Seq(Names) /\ Len(p) \in 1 .. MaxDepth - 1
    BY <1>1, PathsAreSequences DEF FolderPaths
  <1>7. ASSUME NEW p
        PROVE  p \in DocumentPaths \cup {Root} <=> p \in Seq(Names) /\ Len(p) <= MaxDepth
    <2>1. CASE p \notin Seq(Names)
      BY <2>1, <1>2, <1>5
    <2>2. CASE p \in Seq(Names) /\ p = Root
      BY <2>2, <1>1, <1>2
    <2>3. CASE p \in Seq(Names) /\ p # Root
      <3>1. Len(p) \in Nat /\ Len(p) # 0
        BY <2>3, <1>3, <1>4
      <3> QED BY <2>3, <3>1, <1>1, <1>5
    <2> QED BY <2>1, <2>2, <2>3
  <1>8. ASSUME NEW p
        PROVE  p \in FolderPaths \cup {Root} <=> p \in Seq(Names) /\ Len(p) < MaxDepth
    <2>1. CASE p \notin Seq(Names)
      BY <2>1, <1>2, <1>6
    <2>2. CASE p \in Seq(Names) /\ p = Root
      BY <2>2, <1>1, <1>2
    <2>3. CASE p \in Seq(Names) /\ p # Root
      <3>1. Len(p) \in Nat /\ Len(p) # 0
        BY <2>3, <1>3, <1>4
      <3> QED BY <2>3, <3>1, <1>1, <1>6
    <2> QED BY <2>1, <2>2, <2>3
  <1>9. \A p \in FolderPaths : Len(p) > 0
    BY <1>1, <1>6
  <1> QED BY <1>7, <1>8, <1>9

LEMMA Below ==
    ASSUME NEW p \in Seq(Names), NEW n \in Names
    PROVE  /\ Append(p, n) \in Seq(Names) /\ Len(Append(p, n)) = Len(p) + 1
           /\ Front(Append(p, n)) = p
           /\ \A i \in 1 .. Len(p) : Append(p, n)[i] = p[i]
           /\ Append(p, n)[Len(p) + 1] = n
  <1>1. Front(Append(p, n)) = p
    BY DEF Front
  <1> QED BY <1>1

\* Case is ignored name by name.
LEMMA FoldsAlike ==
    ASSUME NEW p \in Seq(Names), NEW q \in Seq(Names)
    PROVE  EqualFold(p, q) <=>
              Len(p) = Len(q) /\ \A i \in 1 .. Len(p) : p[i][1] = q[i][1]
  BY DEF EqualFold, Fold
\* What a request plans is what its constants allow.
LEMMA FolderFound ==
    ASSUME NEW path, Found(path)
    PROVE  FolderByPath(path) \in folders /\ EqualFold(FolderByPath(path), path)
  BY DEF Found, FolderByPath

\* The way is what its loop makes of it, one name at a time.
LEMMA WayByName ==
    ASSUME folders \subseteq FolderPaths, NEW path \in Seq(Names)
    PROVE  /\ Way(path) \in [0 .. Len(path) -> Seq(Names)]
           /\ Way(path)[0] = Root
           /\ \A n \in 1 .. Len(path) :
                 Way(path)[n] = LET next == Append(Way(path)[n - 1], path[n])
                                IN IF Found(next) THEN FolderByPath(next) ELSE next
  <1> DEFINE S == Seq(Names)
             N == Len(path)
             Step(p, n) == LET next == Append(p, path[n])
                           IN IF Found(next) THEN FolderByPath(next) ELSE next
             step == [n \in 1 .. N |-> [p \in S |-> Step(p, n)]]
  <1>1. N \in Nat /\ Root \in S
    BY DEF Root
  <1>2. ASSUME NEW p \in S, NEW n \in 1 .. N PROVE Step(p, n) \in S
    <2>1. Append(p, path[n]) \in S
      OBVIOUS
    <2>2. \A f \in folders : f \in S
      BY PathKinds
    <2> QED BY <2>1, <2>2, FolderFound
  <1>3. step \in [1 .. N -> [S -> S]]
    <2> HIDE DEF Step
    <2> QED BY <1>2
  <1>4. PICK g : Results(S, Root, N, step, g)
    <2> HIDE DEF step, N, S
    <2> QED BY <1>1, <1>3, Loop
  <1>5. \A n \in 1 .. N : g[n] = Step(g[n - 1], n)
    <2> SUFFICES ASSUME NEW n \in 1 .. N PROVE step[n][g[n - 1]] = Step(g[n - 1], n)
      BY <1>4 DEF Results
    <2>1. n - 1 \in 0 .. N
      BY <1>1
    <2>2. g[n - 1] \in S
      <3> HIDE DEF S
      <3> QED BY <2>1, <1>4 DEF Results
    <2> HIDE DEF Step, N, S
    <2> QED BY <2>2
  <1> HIDE DEF step
  <1>6. g = [n \in 0 .. N |-> IF n = 0 THEN Root ELSE Step(g[n - 1], n)]
    <2>1. ASSUME NEW n \in 0 .. N
          PROVE  g[n] = IF n = 0 THEN Root ELSE Step(g[n - 1], n)
      <3>1. n = 0 \/ (n \in 1 .. N /\ n # 0)
        BY <1>1
      <3> HIDE DEF Step
      <3> QED BY <3>1, <1>4, <1>5 DEF Results
    <2> HIDE DEF Step, N, S
    <2>2. g = [n \in 0 .. N |-> g[n]]
      BY <1>4 DEF Results
    <2> QED BY <2>1, <2>2
  <1>7. Way(path) = CHOOSE way : way = [n \in 0 .. N |-> IF n = 0 THEN Root ELSE Step(way[n - 1], n)]
    BY DEF Way
  <1>8. Way(path) = [n \in 0 .. N |-> IF n = 0 THEN Root ELSE Step(Way(path)[n - 1], n)]
    <2> HIDE DEF Step
    <2> QED BY <1>6, <1>7
  <1>9. /\ Way(path)[0] = Root
        /\ \A n \in 1 .. N : Way(path)[n] = Step(Way(path)[n - 1], n)
    <2> HIDE DEF Step
    <2>1. \A n \in 0 .. N : Way(path)[n] = IF n = 0 THEN Root ELSE Step(Way(path)[n - 1], n)
      BY <1>8, Zenon
    <2>2. 0 \in 0 .. N /\ \A n \in 1 .. N : n \in 0 .. N /\ n # 0
      BY <1>1
    <2> QED BY <2>1, <2>2
  <1>10. \A n \in 0 .. N : Way(path)[n] \in S
    <2> DEFINE T == {n \in Nat : n <= N => Way(path)[n] \in S}
    <2>1. 0 \in T
      BY <1>1, <1>9
    <2>2. ASSUME NEW n \in Nat, n \in T PROVE n + 1 \in T
      <3> SUFFICES ASSUME n + 1 <= N PROVE Way(path)[n + 1] \in S
        OBVIOUS
      <3>1. n + 1 \in 1 .. N /\ (n + 1) - 1 = n /\ Way(path)[n] \in S
        BY <2>2, <1>1
      <3>2. Way(path)[n + 1] = Step(Way(path)[n], n + 1)
        <4> HIDE DEF Step
        <4> QED BY <3>1, <1>9
      <3> HIDE DEF Step, S
      <3> QED BY <3>1, <3>2, <1>2
    <2> HIDE DEF T
    <2>3. Nat \subseteq T
      BY <2>1, <2>2, Induction
    <2> QED BY <2>3, <1>1 DEF T
  <1>11. Way(path) \in [0 .. N -> S]
    <2>1. DOMAIN Way(path) = 0 .. N
      <3> HIDE DEF Step, N
      <3> QED BY <1>8
    <2>2. Way(path) = [n \in 0 .. N |-> Way(path)[n]]
      <3> HIDE DEF Step, N
      <3> QED BY <1>8
    <2> HIDE DEF N, S
    <2> QED BY <1>10, <2>2
  <1> QED BY <1>9, <1>11

\* As far as it was gone, the way agrees with the path but for the case.
LEMMA WayAgrees ==
    ASSUME folders \subseteq FolderPaths, NEW path \in Seq(Names)
    PROVE  \A n \in 0 .. Len(path) :
              /\ Way(path)[n] \in Seq(Names) /\ Len(Way(path)[n]) = n
              /\ \A i \in 1 .. n : Way(path)[n][i][1] = path[i][1]
  <1> DEFINE Agrees(p, n) == /\ p \in Seq(Names) /\ Len(p) = n
                             /\ \A i \in 1 .. n : p[i][1] = path[i][1]
             T == {n \in Nat : n <= Len(path) => Agrees(Way(path)[n], n)}
  <1>1. 0 \in T
    BY WayByName DEF Root
  <1>2. ASSUME NEW n \in Nat, n \in T PROVE n + 1 \in T
    <2> SUFFICES ASSUME n + 1 <= Len(path) PROVE Agrees(Way(path)[n + 1], n + 1)
      OBVIOUS
    <2> DEFINE last == Way(path)[n]
               next == Append(last, path[n + 1])
    <2>1. n \in 0 .. Len(path) /\ n + 1 \in 1 .. Len(path) /\ (n + 1) - 1 = n
      OBVIOUS
    <2>2. last \in Seq(Names) /\ Len(last) = n /\ \A i \in 1 .. n : last[i][1] = path[i][1]
      BY <1>2, <2>1
    <2>3. path[n + 1] \in Names
      BY <2>1
    <2>4. Way(path)[n + 1] = IF Found(next) THEN FolderByPath(next) ELSE next
      BY <2>1, WayByName, Zenon
    <2> HIDE DEF last
    <2>5. /\ next \in Seq(Names) /\ Len(next) = n + 1
          /\ \A i \in 1 .. n : next[i] = last[i]
          /\ next[n + 1] = path[n + 1]
      BY <2>2, <2>3, Below
    <2> HIDE DEF next
    <2>6. Agrees(next, n + 1)
      BY <2>2, <2>5
    <2>7. CASE ~Found(next)
      BY <2>4, <2>6, <2>7
    <2>8. CASE Found(next)
      <3> DEFINE f == FolderByPath(next)
      <3>1. f \in folders /\ EqualFold(f, next) /\ Way(path)[n + 1] = f
        BY <2>4, <2>8, FolderFound
      <3>2. f \in Seq(Names)
        BY <3>1, PathKinds
      <3>3. Len(f) = Len(next) /\ \A i \in 1 .. Len(f) : f[i][1] = next[i][1]
        BY <3>1, <3>2, <2>5, FoldsAlike
      <3> HIDE DEF f
      <3> QED BY <3>1, <3>2, <3>3, <2>5, <2>6
    <2> QED BY <2>7, <2>8
  <1>3. Nat \subseteq T
    <2> HIDE DEF T
    <2> QED BY <1>1, <1>2, Induction
  <1> QED BY <1>3

\* A document is in the folder that its path goes through.
PlaceFits(place) ==
    /\ place.path \in DocumentPaths \cup {Root} /\ place.folder \in FolderPaths \cup {Root}
    /\ IF Len(place.path) < 2 THEN place.folder = Root
       ELSE EqualFold(place.folder, Front(place.path))

LEMMA FrontOf ==
    ASSUME NEW p \in Seq(Names), Len(p) > 0
    PROVE  /\ Front(p) \in Seq(Names) /\ Len(Front(p)) = Len(p) - 1
           /\ \A i \in 1 .. Len(p) - 1 : Front(p)[i] = p[i]
  <1> DEFINE n == Len(p) - 1
  <1>1. n \in Nat /\ n <= Len(p) /\ Front(p) = SubSeq(p, 1, n)
    BY DEF Front
  <1> HIDE DEF n
  <1>2. /\ SubSeq(p, 1, n) \in Seq(Names) /\ Len(SubSeq(p, 1, n)) = n
        /\ \A i \in 1 .. n : SubSeq(p, 1, n)[i] = p[i]
    BY <1>1
  <1> QED BY <1>1, <1>2 DEF n

LEMMA GivenPathFits ==
    ASSUME folders \subseteq FolderPaths, NEW path \in DocumentPaths \cup {Root}
    PROVE  /\ PlaceFits(EnsureDocumentParentFolders(path))
           /\ EnsureDocumentParentFolders(path).new \subseteq FolderPaths
  <1> DEFINE place == EnsureDocumentParentFolders(path)
  <1>1. CASE path = Root
    <2>1. place = [path |-> Root, folder |-> Root, new |-> {}]
      BY <1>1 DEF EnsureDocumentParentFolders
    <2>2. Len(Root) = 0
      BY DEF Root
    <2> QED BY <2>1, <2>2 DEF PlaceFits
  <1>2. CASE path # Root
    <2> DEFINE N == Len(path) - 1
    <2>1. path \in Seq(Names) /\ Len(path) \in Nat /\ N \in 0 .. MaxDepth - 1 /\ N \in Nat
      <3>1. path \in Seq(Names) /\ Len(path) <= MaxDepth /\ Len(path) # 0
        BY <1>2, PathKinds DEF Root
      <3> QED BY <3>1, LibraryAssumption
    <2>2. place = [path |-> path, folder |-> Way(path)[N],
                   new |-> {Way(path)[n] : n \in 1 .. N} \ folders]
      BY <1>2 DEF EnsureDocumentParentFolders
    <2>3. \A n \in 0 .. N : /\ Way(path)[n] \in Seq(Names) /\ Len(Way(path)[n]) = n
                            /\ \A i \in 1 .. n : Way(path)[n][i][1] = path[i][1]
      BY <2>1, WayAgrees
    <2>4. \A n \in 1 .. N : Way(path)[n] \in FolderPaths
      <3> SUFFICES ASSUME NEW n \in 1 .. N PROVE Way(path)[n] \in FolderPaths
        OBVIOUS
      <3>1. n \in 0 .. N /\ n < MaxDepth /\ n # 0
        <4> HIDE DEF N
        <4> QED BY <2>1, LibraryAssumption
      <3>2. Way(path)[n] \in Seq(Names) /\ Len(Way(path)[n]) = n
        <4> HIDE DEF N
        <4> QED BY <2>3, <3>1
      <3> QED BY <3>1, <3>2, PathKinds DEF Root
    <2>5. Way(path)[N] \in FolderPaths \cup {Root}
      <3>1. N \in 0 .. N /\ N < MaxDepth
        <4> HIDE DEF N
        <4> QED BY <2>1, LibraryAssumption
      <3>2. Way(path)[N] \in Seq(Names) /\ Len(Way(path)[N]) < MaxDepth
        <4> HIDE DEF N
        <4> QED BY <2>3, <3>1
      <3> QED BY <3>2, PathKinds
    <2>6. IF Len(path) < 2 THEN Way(path)[N] = Root ELSE EqualFold(Way(path)[N], Front(path))
      <3>1. CASE Len(path) < 2
        <4>1. N = 0
          <5>1. PICK n \in Nat : n = N /\ Len(path) = n + 1
            BY <2>1
          <5>2. n + 1 < 2
            BY <5>1, <3>1
          <5> QED BY <5>1, <5>2
        <4> QED BY <2>1, <4>1, <3>1, WayByName
      <3>2. CASE Len(path) >= 2
        <4>1. Front(path) \in Seq(Names) /\ Len(Front(path)) = N
              /\ \A i \in 1 .. N : Front(path)[i] = path[i]
          BY <2>1, <3>2, FrontOf
        <4>2. N \in 0 .. N
          BY <2>1
        <4>3. /\ Way(path)[N] \in Seq(Names) /\ Len(Way(path)[N]) = N
              /\ \A i \in 1 .. N : Way(path)[N][i][1] = path[i][1]
          BY <4>2, <2>3, Zenon
        <4>4. \A i \in 1 .. N : Way(path)[N][i][1] = Front(path)[i][1]
          BY <4>1, <4>3
        <4> HIDE DEF N
        <4>5. EqualFold(Way(path)[N], Front(path))
          BY <4>1, <4>3, <4>4, FoldsAlike
        <4> QED BY <3>2, <4>5, <2>1
      <3> QED BY <3>1, <3>2, <2>1
    <2> HIDE DEF N
    <2> QED BY <2>2, <2>4, <2>5, <2>6 DEF PlaceFits
  <1> QED BY <1>1, <1>2

LEMMA InFolderFits ==
    ASSUME NEW f \in FolderPaths \cup {Root}, NEW n \in Names
    PROVE  PlaceFits(InFolder(f, n)) /\ InFolder(f, n).new = {}
  <1>1. f \in Seq(Names) /\ Len(f) \in Nat /\ Len(f) < MaxDepth
    BY PathKinds
  <1>2. /\ Append(f, n) \in Seq(Names) /\ Len(Append(f, n)) = Len(f) + 1
        /\ Front(Append(f, n)) = f
    BY <1>1, Below
  <1>3. Append(f, n) \in DocumentPaths \cup {Root}
    <2>1. Len(Append(f, n)) <= MaxDepth
      BY <1>1, <1>2, LibraryAssumption
    <2> QED BY <1>2, <2>1, PathKinds
  <1>4. Len(Append(f, n)) < 2 => f = Root
    BY <1>1, <1>2 DEF Root
  <1>5. EqualFold(f, f)
    BY DEF EqualFold
  <1> QED BY <1>2, <1>3, <1>4, <1>5 DEF InFolder, PlaceFits

-----------------------------------------------------------------------------
(* What a request plans                                                    *)

\* A branch that is written again is there still, and while it is as it was loaded,
\* its document keeps a default branch; it is not written with a new branch, and only a
\* branch that is written alone or becomes the default is renamed.
Overwrites(bs, b) ==
    /\ branch[b] # None /\ branch[b].document = bs[b].document
    /\ branch[b].stamp >= bs[b].stamp - 1
    /\ branch[b].stamp = bs[b].stamp - 1 =>
          /\ branch[b].default =>
                \E e \in RowsOf(bs) : bs[e].default /\ bs[e].document = bs[b].document
          /\ \A e \in RowsOf(bs) \ {b} :
                bs[e].stamp > 1 /\ (~bs[b].default => bs[b].name = branch[b].name)

\* Documents are put where their path leads, and new ones have a default branch.
PlanFits(ds, bs) ==
    /\ \A d \in RowsOf(ds) :
          /\ PlaceFits(ds[d])
          /\ ds[d].stamp = 1 => \E b \in RowsOf(bs) : bs[b].default /\ bs[b].document = d
    /\ \A b \in RowsOf(bs) :
          /\ bs[b].default => bs[b].active
          /\ bs[b].document \in RowsOf(documents) \cup RowsOf(ds)
          /\ bs[b].stamp > 1 => Overwrites(bs, b)

DocumentTable == [Documents -> Document \cup {None}]
BranchTable == [BranchIds -> BranchRow \cup {None}]

LEMMA NothingPlanned ==
    /\ Nowhere \in DocumentTable /\ RowsOf(Nowhere) = {}
    /\ NoBranches \in BranchTable /\ RowsOf(NoBranches) = {}
    /\ PlanFits(Nowhere, NoBranches)
  BY DEF Nowhere, NoBranches, RowsOf, PlanFits, DocumentTable, BranchTable

LEMMA OneDocument ==
    ASSUME NEW d \in Documents, NEW row \in Document
    PROVE  /\ [Nowhere EXCEPT ![d] = row] \in DocumentTable
           /\ RowsOf([Nowhere EXCEPT ![d] = row]) = {d}
           /\ [Nowhere EXCEPT ![d] = row][d] = row
  BY LibraryNoneAssumption DEF Nowhere, RowsOf, DocumentTable

LEMMA OneBranch ==
    ASSUME NEW b \in BranchIds, NEW row \in BranchRow
    PROVE  /\ [NoBranches EXCEPT ![b] = row] \in BranchTable
           /\ RowsOf([NoBranches EXCEPT ![b] = row]) = {b}
           /\ [NoBranches EXCEPT ![b] = row][b] = row
  BY LibraryNoneAssumption DEF NoBranches, RowsOf, BranchTable

LEMMA MovedDocumentFits ==
    ASSUME NEW d \in Documents, NEW row \in Document, PlaceFits(row), row.stamp > 1
    PROVE  PlanFits([Nowhere EXCEPT ![d] = row], NoBranches)
  <1>1. row.stamp # 1
    BY DEF Document
  <1> QED BY <1>1, OneDocument, NothingPlanned DEF PlanFits

LEMMA WrittenBranchFits ==
    ASSUME NEW b \in BranchIds, NEW row \in BranchRow, row.default => row.active,
           row.document \in RowsOf(documents),
           row.stamp > 1 => /\ branch[b] # None /\ branch[b].document = row.document
                            /\ branch[b].stamp = row.stamp - 1
                            /\ branch[b].default = row.default
    PROVE  PlanFits(Nowhere, [NoBranches EXCEPT ![b] = row])
  <1> DEFINE bs == [NoBranches EXCEPT ![b] = row]
  <1>1. RowsOf(bs) = {b} /\ bs[b] = row
    BY OneBranch
  <1>2. row.stamp \in Int
    BY DEF BranchRow
  <1> HIDE DEF bs
  <1>3. row.stamp > 1 => Overwrites(bs, b)
    <2> SUFFICES ASSUME row.stamp > 1 PROVE Overwrites(bs, b)
      OBVIOUS
    <2>1. branch[b].default => row.default
      OBVIOUS
    <2> QED BY <1>1, <1>2, <2>1 DEF Overwrites
  <1> QED BY <1>1, <1>3, NothingPlanned DEF PlanFits, bs

LEMMA FirstBranches ==
    ASSUME NEW d \in Documents, NEW first \in BranchIds,
           first + 1 \in BranchIds, first + 2 \in BranchIds
    PROVE  LET bs == DefaultEnvironmentBranches(d, first) IN
           /\ bs \in BranchTable
           /\ RowsOf(bs) = {first, first + 1, first + 2}
           /\ \A b \in RowsOf(bs) : /\ bs[b].document = d /\ bs[b].active /\ bs[b].stamp = 1
                                    /\ bs[b].default <=> b = first
           /\ bs[first].name = "dev" /\ bs[first + 1].name = "test"
           /\ bs[first + 2].name = "prod"
  <1> DEFINE bs == DefaultEnvironmentBranches(d, first)
  <1>1. \A name \in {"dev", "test", "prod"} : NewBranch(d, name) \in BranchRow
    BY LibraryAssumption DEF NewBranch, BranchRow
  <1>2. first \in Int /\ first # first + 1 /\ first # first + 2 /\ first + 1 # first + 2
    BY DEF BranchIds
  <1>3. /\ bs[first] = NewBranch(d, "dev") /\ bs[first + 1] = NewBranch(d, "test")
        /\ bs[first + 2] = NewBranch(d, "prod")
        /\ \A b \in BranchIds \ {first, first + 1, first + 2} : bs[b] = None
        /\ DOMAIN bs = BranchIds
    BY <1>2 DEF DefaultEnvironmentBranches
  <1>4. bs = [b \in BranchIds |-> bs[b]]
    BY DEF DefaultEnvironmentBranches
  <1> HIDE DEF bs
  <1>5. \A b \in BranchIds : bs[b] \in BranchRow \cup {None}
    BY <1>1, <1>3
  <1>6. bs \in BranchTable
    BY <1>4, <1>5 DEF BranchTable
  <1>7. RowsOf(bs) = {first, first + 1, first + 2}
    BY <1>1, <1>3, LibraryNoneAssumption DEF RowsOf
  <1>8. \A name \in {"dev", "test", "prod"} :
           LET row == NewBranch(d, name) IN
           /\ row.document = d /\ row.active /\ row.stamp = 1 /\ row.name = name
           /\ row.default <=> name = "dev"
    BY DEF NewBranch
  <1> QED BY <1>2, <1>3, <1>6, <1>7, <1>8 DEF bs

LEMMA NewDocumentFits ==
    ASSUME NEW d \in Documents, NEW row \in Document, PlaceFits(row),
           NEW first \in BranchIds, first + 1 \in BranchIds, first + 2 \in BranchIds
    PROVE  PlanFits([Nowhere EXCEPT ![d] = row], DefaultEnvironmentBranches(d, first))
  <1> DEFINE ds == [Nowhere EXCEPT ![d] = row]
             bs == DefaultEnvironmentBranches(d, first)
  <1>1. RowsOf(ds) = {d} /\ ds[d] = row
    BY OneDocument
  <1>2. /\ first \in RowsOf(bs) /\ bs[first].default /\ bs[first].document = d
        /\ \A b \in RowsOf(bs) : bs[b].document = d /\ bs[b].active /\ bs[b].stamp = 1
    BY FirstBranches
  <1> HIDE DEF ds, bs
  <1>3. PlanFits(ds, bs)
    BY <1>1, <1>2 DEF PlanFits
  <1> QED BY <1>3 DEF ds, bs

\* What is touched is as it was loaded, but for its stamp.
SameBranch(new, row) ==
    /\ new.document = row.document /\ new.name = row.name
    /\ new.default = row.default /\ new.active = row.active

LEMMA TouchedBranch ==
    ASSUME NEW row \in BranchRow, row.stamp < MaxEdits
    PROVE  /\ Touched(row) \in BranchRow /\ SameBranch(Touched(row), row)
           /\ Touched(row).stamp = row.stamp + 1 /\ Touched(row).stamp > 1
  <1>1. row.stamp + 1 \in 1 .. MaxEdits /\ row.stamp + 1 > 1
    BY LibraryAssumption DEF BranchRow
  <1>2. Touched(row) \in BranchRow
    BY <1>1 DEF Touched, BranchRow
  <1>3. /\ Touched(row).stamp = row.stamp + 1
        /\ Touched(row).document = row.document /\ Touched(row).name = row.name
    BY DEF Touched, BranchRow
  <1>4. DOMAIN row = {"document", "name", "default", "active", "stamp"}
    BY DEF BranchRow
  <1>5. Touched(row).default = row.default /\ Touched(row).active = row.active
    BY <1>4, Zenon DEF Touched
  <1> QED BY <1>1, <1>2, <1>3, <1>5 DEF SameBranch

LEMMA ChangedBranch ==
    ASSUME NEW row \in BranchRow
    PROVE  /\ \A default \in BOOLEAN :
                 LET new == [row EXCEPT !.default = default] IN
                 /\ new \in BranchRow /\ new.stamp = row.stamp /\ new.name = row.name
                 /\ new.document = row.document
                 /\ new.default = default /\ new.active = row.active
           /\ LET new == [row EXCEPT !.active = FALSE] IN
              /\ new \in BranchRow /\ new.stamp = row.stamp /\ new.name = row.name
              /\ new.document = row.document
              /\ new.default = row.default /\ new.active = FALSE
           /\ \A name \in BranchNames :
                 LET new == [row EXCEPT !.name = name] IN
                 /\ new \in BranchRow /\ new.stamp = row.stamp
                 /\ new.document = row.document
                 /\ new.default = row.default /\ new.active = row.active
  <1>1. DOMAIN row = {"document", "name", "default", "active", "stamp"}
    BY DEF BranchRow
  <1>2. ASSUME NEW default \in BOOLEAN
        PROVE  LET new == [row EXCEPT !.default = default] IN
               /\ new \in BranchRow /\ new.stamp = row.stamp /\ new.name = row.name
               /\ new.document = row.document
               /\ new.default = default /\ new.active = row.active
    <2> DEFINE new == [row EXCEPT !.default = default]
    <2>1. new \in BranchRow
      BY DEF BranchRow
    <2>2. /\ new.stamp = row.stamp /\ new.name = row.name /\ new.document = row.document
          /\ new.default = default /\ new.active = row.active
      BY <1>1, Zenon
    <2> QED BY <2>1, <2>2, Zenon
  <1>3. LET new == [row EXCEPT !.active = FALSE] IN
        /\ new \in BranchRow /\ new.stamp = row.stamp /\ new.name = row.name
        /\ new.document = row.document
        /\ new.default = row.default /\ new.active = FALSE
    <2> DEFINE new == [row EXCEPT !.active = FALSE]
    <2>1. new \in BranchRow
      BY DEF BranchRow
    <2>2. /\ new.stamp = row.stamp /\ new.name = row.name /\ new.document = row.document
          /\ new.default = row.default /\ new.active = FALSE
      BY <1>1, Zenon
    <2> QED BY <2>1, <2>2, Zenon
  <1>4. ASSUME NEW name \in BranchNames
        PROVE  LET new == [row EXCEPT !.name = name] IN
               /\ new \in BranchRow /\ new.stamp = row.stamp
               /\ new.document = row.document
               /\ new.default = row.default /\ new.active = row.active
    <2> DEFINE new == [row EXCEPT !.name = name]
    <2>1. new \in BranchRow
      BY DEF BranchRow
    <2>2. /\ new.stamp = row.stamp /\ new.document = row.document
          /\ new.default = row.default /\ new.active = row.active
      BY <1>1, Zenon
    <2> QED BY <2>1, <2>2, Zenon
  <1> QED BY <1>2, <1>3, <1>4, Zenon

LEMMA MadeDefaultFits ==
    ASSUME LibraryTypeOK, NEW d \in RowsOf(documents), NEW b \in BranchesOf(d, branch),
           NEW given \in BranchRow, given.stamp = branch[b].stamp, given.document = d, given.active,
           MayTouch(branch, BranchesOf(d, branch), MaxEdits)
    PROVE  MadeDefault(d, b, given) \in BranchTable /\ PlanFits(Nowhere, MadeDefault(d, b, given))
  <1> DEFINE bs == MadeDefault(d, b, given)
             rewritten == [branch EXCEPT ![b] = given]
             own == BranchesOf(d, branch)
  <1>0. \A e \in DOMAIN branch : rewritten[e] = IF e = b THEN given ELSE branch[e]
    OBVIOUS
  <1>1. \A e \in own : /\ e \in BranchIds /\ e \in DOMAIN branch
                       /\ branch[e] \in BranchRow /\ branch[e] # None
                       /\ branch[e].document = d /\ branch[e].stamp < MaxEdits
    BY DEF BranchesOf, RowsOf, LibraryTypeOK, MayTouch
  <1>2. \A e \in own :
           /\ bs[e] \in BranchRow /\ bs[e].stamp = branch[e].stamp + 1 /\ bs[e].stamp > 1
           /\ bs[e].document = d /\ bs[e].default = (e = b) /\ bs[e].active = rewritten[e].active
           /\ e # b => bs[e].name = branch[e].name
    <2> SUFFICES ASSUME NEW e \in own
                 PROVE  /\ bs[e] \in BranchRow
                        /\ bs[e].stamp = branch[e].stamp + 1 /\ bs[e].stamp > 1
                        /\ bs[e].document = d
                        /\ bs[e].default = (e = b) /\ bs[e].active = rewritten[e].active
                        /\ e # b => bs[e].name = branch[e].name
      OBVIOUS
    <2>0. PICK old : old = rewritten[e]
      OBVIOUS
    <2>1. bs[e] = Touched([old EXCEPT !.default = (e = b)])
      BY <1>1, <2>0 DEF MadeDefault
    <2>2. PICK new : new = [old EXCEPT !.default = (e = b)]
      OBVIOUS
    <2>3. /\ new \in BranchRow /\ new.stamp = branch[e].stamp
          /\ new.document = d
          /\ new.default = (e = b) /\ new.active = old.active
          /\ e # b => new.name = branch[e].name
      <3>1. /\ old \in BranchRow /\ old.stamp = branch[e].stamp /\ old.document = d
            /\ e # b => old.name = branch[e].name
        BY <1>1, <1>0, <2>0
      <3>2. \A default \in BOOLEAN :
               LET r == [old EXCEPT !.default = default] IN
               /\ r \in BranchRow /\ r.stamp = old.stamp /\ r.name = old.name
               /\ r.document = old.document
               /\ r.default = default /\ r.active = old.active
        BY <3>1, ChangedBranch
      <3> QED BY <3>1, <3>2, <2>2, Zenon
    <2>4. bs[e] = Touched(new)
      BY <2>1, <2>2, Zenon
    <2>5. /\ bs[e] \in BranchRow /\ SameBranch(bs[e], new)
          /\ bs[e].stamp = new.stamp + 1 /\ bs[e].stamp > 1
      BY <2>3, <2>4, <1>1, TouchedBranch
    <2> HIDE DEF bs
    <2> QED BY <2>0, <2>3, <2>5, <1>1, Zenon DEF SameBranch
  <1>3. \A e \in BranchIds \ own : bs[e] = None
    BY DEF MadeDefault
  <1>4. bs = [e \in BranchIds |-> bs[e]]
    BY DEF MadeDefault
  <1>5. b \in own
    OBVIOUS
  <1>6. d \in RowsOf(documents)
    OBVIOUS
  <1> HIDE DEF bs, own
  <1>7. bs \in BranchTable /\ RowsOf(bs) = own
    BY <1>1, <1>2, <1>3, <1>4, LibraryNoneAssumption DEF BranchTable, RowsOf
  <1>8. \A e \in own : Overwrites(bs, e)
    <2> SUFFICES ASSUME NEW e \in own PROVE Overwrites(bs, e)
      OBVIOUS
    <2>1. branch[e].stamp \in Int
      BY <1>1 DEF BranchRow
    <2>2. bs[b].default /\ bs[b].document = bs[e].document
      BY <1>2, <1>5
    <2> QED BY <2>1, <2>2, <1>1, <1>2, <1>5, <1>7 DEF Overwrites
  <1>9. PlanFits(Nowhere, bs)
    <2>1. \A e \in own : bs[e].default => bs[e].active
      BY <1>0, <1>1, <1>2
    <2> QED BY <2>1, <1>2, <1>6, <1>7, <1>8, NothingPlanned DEF PlanFits
  <1> QED BY <1>7, <1>9 DEF bs

\* What others save leaves a plan a plan: rows stay, branches stay in their
\* documents, and what changes has a newer stamp.
TablesAdvance ==
    /\ RowsOf(documents) \subseteq RowsOf(documents)'
    /\ \A b \in BranchIds : branch[b] # None =>
          /\ branch'[b] # None /\ branch'[b].document = branch[b].document
          /\ (branch'[b].stamp > branch[b].stamp \/ branch'[b] = branch[b])

LEMMA PlansSurvive ==
    ASSUME LibraryTypeOK, LibraryTypeOK', TablesAdvance,
           NEW CONSTANT ds, NEW CONSTANT bs, bs \in BranchTable, PlanFits(ds, bs)
    PROVE  PlanFits(ds, bs)'
  <1>1. ASSUME NEW b \in RowsOf(bs), Overwrites(bs, b) PROVE Overwrites(bs, b)'
    <2>1. b \in BranchIds /\ bs[b] \in BranchRow
      BY DEF RowsOf, BranchTable
    <2>2. branch[b] # None /\ branch'[b] # None /\ branch'[b].document = bs[b].document
      BY <1>1, <2>1 DEF Overwrites, TablesAdvance
    <2>3. branch[b] \in BranchRow /\ branch'[b] \in BranchRow
      BY <2>1, <2>2 DEF LibraryTypeOK
    <2>4. branch[b].stamp \in Int /\ branch'[b].stamp \in Int /\ bs[b].stamp \in Int
      BY <2>1, <2>3 DEF BranchRow
    <2>5. branch[b].stamp >= bs[b].stamp - 1
      BY <1>1 DEF Overwrites
    <2>6. branch'[b].stamp > branch[b].stamp \/ branch'[b] = branch[b]
      BY <2>1, <2>2 DEF TablesAdvance
    <2>7. CASE branch'[b] = branch[b]
      BY <2>7, <1>1 DEF Overwrites
    <2>8. CASE branch'[b].stamp > branch[b].stamp
      <3>1. branch'[b].stamp >= bs[b].stamp - 1 /\ branch'[b].stamp # bs[b].stamp - 1
        BY <2>4, <2>5, <2>8
      <3> QED BY <3>1, <2>2 DEF Overwrites
    <2> QED BY <2>6, <2>7, <2>8
  <1>2. RowsOf(documents) \subseteq RowsOf(documents)'
    BY DEF TablesAdvance
  <1> QED BY <1>1, <1>2 DEF PlanFits

-----------------------------------------------------------------------------
(* The inductive invariant                                                 *)

TablesFit ==
    /\ LibraryTypeOK /\ Whole(folders, documents, branch)
    /\ \A b \in RowsOf(branch) : branch[b].document \in RowsOf(documents)

LibraryRequest(r) ==
    r.kind \in LibraryKinds => r \in LibraryCall /\ PlanFits(r.documents, r.branches)

LibraryInvariant ==
    /\ Formed /\ TablesFit
    /\ \A c \in Clients : LibraryRequest(call[c])

\* A request that plans fits the invariant.
PlansWell(c) ==
    /\ UNCHANGED libraryVars
    /\ \E r : Enter(c, r) /\ r \in LibraryCall /\ PlanFits(r.documents, r.branches)

LEMMA PlanIsWell ==
    ASSUME NEW c \in Clients, NEW kind \in LibraryKinds, NEW u \in Users,
           NEW d \in Documents \cup {None}, NEW b \in BranchIds \cup {None},
           NEW new \in SUBSET FolderPaths, NEW ds \in DocumentTable, NEW bs \in BranchTable,
           PlanFits(ds, bs), Plan(c, kind, u, d, b, new, ds, bs)
    PROVE  PlansWell(c)
  <1> DEFINE r == [kind |-> kind, step |-> "ready", user |-> u, document |-> d, branch |-> b,
                   newFolders |-> new, documents |-> ds, branches |-> bs]
  <1>1. r \in LibraryCall
    BY DEF LibraryCall, DocumentTable, BranchTable
  <1>2. r.documents = ds /\ r.branches = bs
    OBVIOUS
  <1>3. Enter(c, r) /\ UNCHANGED libraryVars
    BY DEF Plan
  <1> HIDE DEF r
  <1>4. PlanFits(r.documents, r.branches)
    BY <1>2
  <1> QED BY <1>1, <1>3, <1>4 DEF PlansWell

LEMMA FolderPlan ==
    ASSUME TablesFit, NEW c \in Clients, NEW u \in Users, NEW parent, NEW name,
           CreateDocumentFolder(c, u, parent, name)
    PROVE  PlansWell(c)
  <1>1. /\ Append(parent, name) \in FolderPaths
        /\ Plan(c, "createFolder", u, None, None, {Append(parent, name)}, Nowhere, NoBranches)
    BY DEF CreateDocumentFolder
  <1>2. "createFolder" \in LibraryKinds
    BY DEF LibraryKinds
  <1> QED BY <1>1, <1>2, PlanIsWell, NothingPlanned

\* Every place that a request may give a document fits its path.
Fitting(place) == PlaceFits(place) /\ place.new \in SUBSET FolderPaths

LEMMA FirstPlacesFit ==
    ASSUME TablesFit, NEW place \in FirstPlaces
    PROVE  Fitting(place)
  <1>1. folders \subseteq FolderPaths
    BY DEF TablesFit, LibraryTypeOK
  <1>2. CASE \E p \in Requested \cup {Root} : place = EnsureDocumentParentFolders(p)
    BY <1>1, <1>2, GivenPathFits, RequestedAssumption DEF Fitting
  <1>3. CASE \E f \in folders \cup {Root}, n \in Names : place = InFolder(f, n)
    BY <1>1, <1>3, InFolderFits DEF Fitting
  <1> QED BY <1>2, <1>3 DEF FirstPlaces

LEMMA LastIsName ==
    ASSUME NEW p \in DocumentPaths \cup {Root}, p # Root
    PROVE  Last(p) \in Names
  <1>1. p \in Seq(Names) /\ Len(p) # 0
    BY PathKinds DEF Root
  <1> QED BY <1>1 DEF Last

LEMMA RowFits ==
    ASSUME TablesFit, NEW d \in RowsOf(documents)
    PROVE  documents[d] \in Document /\ PlaceFits(documents[d])
  <1>1. documents[d] \in Document
    BY DEF TablesFit, LibraryTypeOK, RowsOf
  <1>2. /\ documents[d].path \in DocumentPaths \cup {Root}
        /\ documents[d].folder \in FolderPaths \cup {Root}
    BY <1>1 DEF Document
  <1>3. IF Len(documents[d].path) < 2 THEN documents[d].folder = Root
        ELSE EqualFold(documents[d].folder, Front(documents[d].path))
    BY DEF TablesFit, Whole, PathsLead
  <1> QED BY <1>1, <1>2, <1>3 DEF PlaceFits

LEMMA NewPlacesFit ==
    ASSUME TablesFit, NEW d \in RowsOf(documents), NEW place \in NewPlaces(documents[d])
    PROVE  Fitting(place)
  <1> DEFINE row == documents[d]
  <1>1. folders \subseteq FolderPaths /\ row \in Document /\ PlaceFits(row)
    BY RowFits DEF TablesFit, LibraryTypeOK
  <1>2. row.path \in DocumentPaths \cup {Root} /\ row.folder \in FolderPaths \cup {Root}
    BY <1>1 DEF Document
  <1> HIDE DEF row
  <1>3. CASE \E p \in Requested : place = EnsureDocumentParentFolders(p)
    BY <1>1, <1>3, GivenPathFits, RequestedAssumption DEF Fitting
  <1>4. CASE \E n \in Names : place = InFolder(row.folder, n)
    BY <1>2, <1>4, InFolderFits DEF Fitting
  <1>5. CASE \E f \in folders \cup {Root}, n \in IF row.path = Root THEN {} ELSE {Last(row.path)} :
                place = InFolder(f, n)
    <2>1. PICK f \in folders \cup {Root} : row.path # Root /\ place = InFolder(f, Last(row.path))
      BY <1>5
    <2>2. Last(row.path) \in Names /\ f \in FolderPaths \cup {Root}
      BY <2>1, <1>1, <1>2, LastIsName
    <2> QED BY <2>1, <2>2, InFolderFits DEF Fitting
  <1>6. CASE place = [path |-> row.path, folder |-> row.folder, new |-> {}]
    BY <1>6, <1>1 DEF Fitting, PlaceFits
  <1> QED BY <1>3, <1>4, <1>5, <1>6 DEF NewPlaces, row

LEMMA DocumentPlan ==
    ASSUME TablesFit, NEW c \in Clients, NEW u \in Users, NEW d \in FreshDocuments,
           NEW name \in DocumentNames, NEW place \in FirstPlaces,
           CreateDocumentWithLocation(c, u, d, name, place)
    PROVE  PlansWell(c)
  <1> DEFINE row == [name |-> name, path |-> place.path, folder |-> place.folder,
                     active |-> TRUE, stamp |-> 1]
  <1>1. PICK first \in FreshBranches :
           /\ {first + 1, first + 2} \subseteq FreshBranches
           /\ Plan(c, "createDocument", u, None, None, place.new,
                   [Nowhere EXCEPT ![d] = row], DefaultEnvironmentBranches(d, first))
    BY DEF CreateDocumentWithLocation
  <1>2. Fitting(place)
    BY FirstPlacesFit
  <1>3. row \in Document /\ PlaceFits(row)
    BY <1>2, LibraryAssumption DEF Fitting, PlaceFits, Document
  <1>4. d \in Documents /\ first \in BranchIds /\ first + 1 \in BranchIds /\ first + 2 \in BranchIds
    BY <1>1 DEF FreshDocuments, FreshBranches
  <1> HIDE DEF row
  <1>5. PlanFits([Nowhere EXCEPT ![d] = row], DefaultEnvironmentBranches(d, first))
    BY <1>3, <1>4, NewDocumentFits
  <1>6. /\ [Nowhere EXCEPT ![d] = row] \in DocumentTable
        /\ DefaultEnvironmentBranches(d, first) \in BranchTable
    BY <1>3, <1>4, OneDocument, FirstBranches
  <1>7. "createDocument" \in LibraryKinds
    BY DEF LibraryKinds
  <1> QED BY <1>1, <1>2, <1>5, <1>6, <1>7, PlanIsWell DEF Fitting

\* What is touched of a document is its stamp.
LEMMA TouchedDocument ==
    ASSUME NEW row \in Document, row.stamp < MaxMoves
    PROVE  /\ Touched(row) \in Document /\ Touched(row).stamp > 1
           /\ Touched(row).path = row.path /\ Touched(row).folder = row.folder
  <1>1. row.stamp + 1 \in 1 .. MaxMoves /\ row.stamp + 1 > 1
    BY LibraryAssumption DEF Document
  <1> QED BY <1>1 DEF Touched, Document

LEMMA DocumentMoves ==
    ASSUME TablesFit, NEW c \in Clients, NEW u \in Users, NEW d \in RowsOf(documents),
           \/ \E name \in DocumentNames, place \in NewPlaces(documents[d]) :
                UpdateDocument(c, u, d, name, place)
           \/ ArchiveDocument(c, u, d)
    PROVE  PlansWell(c)
  <1>1. d \in Documents /\ documents[d] \in Document /\ PlaceFits(documents[d])
    BY RowFits DEF RowsOf, TablesFit, LibraryTypeOK
  <1>2. {"updateDocument", "archiveDocument"} \subseteq LibraryKinds
    BY DEF LibraryKinds
  <1>3. ASSUME NEW row \in Document, PlaceFits(row), row.stamp = documents[d].stamp,
               MayTouch(documents, {d}, MaxMoves)
        PROVE  /\ [Nowhere EXCEPT ![d] = Touched(row)] \in DocumentTable
               /\ PlanFits([Nowhere EXCEPT ![d] = Touched(row)], NoBranches)
    <2>1. /\ Touched(row) \in Document /\ Touched(row).stamp > 1
          /\ Touched(row).path = row.path /\ Touched(row).folder = row.folder
      BY <1>3, TouchedDocument DEF MayTouch
    <2>2. PlaceFits(Touched(row))
      BY <2>1, <1>3 DEF PlaceFits
    <2> QED BY <1>1, <2>1, <2>2, OneDocument, MovedDocumentFits
  <1>4. ASSUME NEW name \in DocumentNames, NEW place \in NewPlaces(documents[d]),
               UpdateDocument(c, u, d, name, place)
        PROVE  PlansWell(c)
    <2> DEFINE row == [documents[d] EXCEPT !.name = name, !.path = place.path, !.folder = place.folder]
    <2>1. /\ MayTouch(documents, {d}, MaxMoves)
          /\ Plan(c, "updateDocument", u, d, None, place.new,
                  [Nowhere EXCEPT ![d] = Touched(row)], NoBranches)
      BY <1>4 DEF UpdateDocument
    <2>2. Fitting(place)
      BY NewPlacesFit
    <2>3. row \in Document /\ PlaceFits(row) /\ row.stamp = documents[d].stamp
      BY <2>2, <1>1 DEF Fitting, PlaceFits, Document
    <2> HIDE DEF row
    <2>4. /\ [Nowhere EXCEPT ![d] = Touched(row)] \in DocumentTable
          /\ PlanFits([Nowhere EXCEPT ![d] = Touched(row)], NoBranches)
      BY <1>3, <2>1, <2>3
    <2> QED BY <2>1, <2>2, <2>4, <1>1, <1>2, PlanIsWell, NothingPlanned DEF Fitting
  <1>5. ASSUME ArchiveDocument(c, u, d) PROVE PlansWell(c)
    <2> DEFINE row == [documents[d] EXCEPT !.active = FALSE]
    <2>1. /\ MayTouch(documents, {d}, MaxMoves)
          /\ Plan(c, "archiveDocument", u, d, None, {},
                  [Nowhere EXCEPT ![d] = Touched(row)], NoBranches)
      BY <1>5 DEF ArchiveDocument
    <2>2. row \in Document /\ PlaceFits(row) /\ row.stamp = documents[d].stamp
      BY <1>1 DEF PlaceFits, Document
    <2> HIDE DEF row
    <2>3. /\ [Nowhere EXCEPT ![d] = Touched(row)] \in DocumentTable
          /\ PlanFits([Nowhere EXCEPT ![d] = Touched(row)], NoBranches)
      BY <1>3, <2>1, <2>2
    <2> QED BY <2>1, <2>3, <1>1, <1>2, PlanIsWell, NothingPlanned
  <1> QED BY <1>4, <1>5

LEMMA BranchPlan ==
    ASSUME TablesFit, NEW c \in Clients, NEW u \in Users, NEW d \in RowsOf(documents),
           NEW name \in BranchNames, CreateBranch(c, u, d, name)
    PROVE  PlansWell(c)
  <1> DEFINE row == [NewBranch(d, name) EXCEPT !.default = FALSE]
  <1>1. PICK b \in FreshBranches :
           Plan(c, "createBranch", u, d, None, {}, Nowhere, [NoBranches EXCEPT ![b] = row])
    BY DEF CreateBranch
  <1>2. d \in Documents /\ b \in BranchIds /\ "createBranch" \in LibraryKinds
    BY DEF FreshBranches, LibraryKinds, RowsOf, TablesFit, LibraryTypeOK
  <1>3. NewBranch(d, name) \in BranchRow /\ NewBranch(d, name).stamp = 1
        /\ NewBranch(d, name).document = d
    BY <1>2, LibraryAssumption DEF NewBranch, BranchRow
  <1>4. row \in BranchRow /\ row.stamp = 1 /\ row.document = d /\ row.default = FALSE
    BY <1>3, ChangedBranch
  <1> HIDE DEF row
  <1>5. PlanFits(Nowhere, [NoBranches EXCEPT ![b] = row])
    BY <1>2, <1>4, WrittenBranchFits
  <1> QED BY <1>1, <1>2, <1>4, <1>5, OneBranch, PlanIsWell, NothingPlanned

LEMMA BranchChanges ==
    ASSUME TablesFit, NEW c \in Clients, NEW u \in Users, NEW d \in RowsOf(documents),
           NEW b \in BranchesOf(d, branch), UpdateBranch(c, u, d, b) \/ ArchiveBranch(c, u, d, b)
    PROVE  PlansWell(c)
  <1>1. /\ d \in Documents /\ b \in BranchIds /\ branch[b] # None /\ branch[b] \in BranchRow
        /\ branch[b].document = d
    BY DEF BranchesOf, RowsOf, TablesFit, LibraryTypeOK
  <1>2. {"updateBranch", "archiveBranch"} \subseteq LibraryKinds
    BY DEF LibraryKinds
  <1>3. branch[b].active /\ branch[b].stamp < MaxEdits
    BY DEF UpdateBranch, ArchiveBranch, MayTouch
  <1>4. ASSUME NEW kind \in {"updateBranch", "archiveBranch"}, NEW row \in BranchRow,
               row.stamp = branch[b].stamp, row.document = d,
               row.default = branch[b].default, row.default => row.active,
               Plan(c, kind, u, d, b, {}, Nowhere, [NoBranches EXCEPT ![b] = Touched(row)])
        PROVE  PlansWell(c)
    <2> DEFINE new == Touched(row)
    <2>1. /\ new \in BranchRow /\ SameBranch(new, row)
          /\ new.stamp = row.stamp + 1 /\ new.stamp > 1
      BY <1>3, <1>4, TouchedBranch
    <2>2. branch[b].stamp \in Int
      BY <1>1 DEF BranchRow
    <2> HIDE DEF new
    <2>3. branch[b].stamp = new.stamp - 1
      BY <2>1, <2>2, <1>4
    <2>4. new.default = branch[b].default /\ (new.default => new.active) /\ new.document = d
      BY <2>1, <1>4, Zenon DEF SameBranch
    <2>5. PlanFits(Nowhere, [NoBranches EXCEPT ![b] = new])
      BY <1>1, <2>1, <2>3, <2>4, WrittenBranchFits
    <2>6. Plan(c, kind, u, d, b, {}, Nowhere, [NoBranches EXCEPT ![b] = new])
      BY <1>4 DEF new
    <2>7. [NoBranches EXCEPT ![b] = new] \in BranchTable
      BY <1>1, <2>1, OneBranch
    <2> QED BY <1>1, <1>2, <2>5, <2>6, <2>7, PlanIsWell, NothingPlanned
  <1>5. ASSUME UpdateBranch(c, u, d, b) PROVE PlansWell(c)
    <2>1. PICK name \in BranchNames :
             \/ Plan(c, "updateBranch", u, d, b, {}, Nowhere, Rewritten(b, Renamed(b, name)))
             \/ Plan(c, "updateBranch", u, d, b, {}, Nowhere, MadeDefault(d, b, Renamed(b, name)))
      <3>1. branch[b].name \in BranchNames
        BY <1>1 DEF BranchRow
      <3> QED BY <1>5, <3>1 DEF UpdateBranch
    <2>2. PICK row : row = Renamed(b, name)
      OBVIOUS
    <2>3. /\ row \in BranchRow /\ row.stamp = branch[b].stamp
          /\ row.document = branch[b].document
          /\ row.default = branch[b].default /\ row.active = branch[b].active
      <3>1. \A given \in BranchNames :
               LET r == [branch[b] EXCEPT !.name = given] IN
               /\ r \in BranchRow /\ r.stamp = branch[b].stamp
               /\ r.document = branch[b].document
               /\ r.default = branch[b].default /\ r.active = branch[b].active
        BY <1>1, ChangedBranch
      <3> QED BY <2>2, <3>1, Zenon DEF Renamed
    <2>4. CASE Plan(c, "updateBranch", u, d, b, {}, Nowhere, Rewritten(b, row))
      <3>1. Rewritten(b, row) = [NoBranches EXCEPT ![b] = Touched(row)]
        BY Zenon DEF Rewritten
      <3> QED BY <2>3, <2>4, <3>1, <1>1, <1>3, <1>4
    <2>5. CASE Plan(c, "updateBranch", u, d, b, {}, Nowhere, MadeDefault(d, b, row))
      <3>1. LibraryTypeOK /\ MayTouch(branch, BranchesOf(d, branch), MaxEdits)
        BY <1>5 DEF TablesFit, UpdateBranch
      <3>2. row.document = d /\ row.active
        BY <2>3, <1>1, <1>5 DEF UpdateBranch
      <3>3. MadeDefault(d, b, row) \in BranchTable /\ PlanFits(Nowhere, MadeDefault(d, b, row))
        BY <2>3, <3>1, <3>2, MadeDefaultFits
      <3> QED BY <1>1, <1>2, <2>5, <3>3, PlanIsWell, NothingPlanned
    <2> QED BY <2>1, <2>2, <2>4, <2>5
  <1>8. ASSUME ArchiveBranch(c, u, d, b) PROVE PlansWell(c)
    <2>1. PICK row : row = [branch[b] EXCEPT !.active = FALSE]
      OBVIOUS
    <2>2. /\ row \in BranchRow /\ row.stamp = branch[b].stamp
          /\ row.document = branch[b].document
          /\ row.default = branch[b].default /\ row.active = FALSE
      BY <1>1, <2>1, ChangedBranch
    <2>3. ~branch[b].default
      BY <1>8 DEF ArchiveBranch
    <2>4. Plan(c, "archiveBranch", u, d, b, {}, Nowhere, [NoBranches EXCEPT ![b] = Touched(row)])
      BY <1>8, <2>1, Zenon DEF ArchiveBranch
    <2> QED BY <2>2, <2>3, <2>4, <1>1, <1>4
  <1> QED BY <1>5, <1>8

LEMMA LibraryPlansWell ==
    ASSUME TablesFit, LibraryNext
    PROVE  \E c \in Clients : (call[c] = Idle /\ PlansWell(c)) \/ SaveLibrary(c)
  <1>1. PICK c \in Clients :
       \/ /\ Free(c, "createFolder")
          /\ \E u \in Users, parent \in folders \cup {Root}, name \in Names :
                CreateDocumentFolder(c, u, parent, name)
       \/ /\ Free(c, "createDocument")
          /\ \E u \in Users, d \in FreshDocuments, name \in DocumentNames, place \in FirstPlaces :
                CreateDocumentWithLocation(c, u, d, name, place)
       \/ \E u \in Users, d \in RowsOf(documents) :
            \/ /\ Free(c, "updateDocument")
               /\ \E name \in DocumentNames, place \in NewPlaces(documents[d]) :
                     UpdateDocument(c, u, d, name, place)
            \/ Free(c, "archiveDocument") /\ ArchiveDocument(c, u, d)
            \/ /\ Free(c, "createBranch")
               /\ \E name \in BranchNames : CreateBranch(c, u, d, name)
            \/ /\ Free(c, "updateBranch")
               /\ \E b \in BranchesOf(d, branch) : UpdateBranch(c, u, d, b)
            \/ /\ Free(c, "archiveBranch")
               /\ \E b \in BranchesOf(d, branch) : ArchiveBranch(c, u, d, b)
       \/ SaveLibrary(c)
    BY DEF LibraryNext
  <1>2. ASSUME NEW kind, Free(c, kind) PROVE call[c] = Idle
    BY <1>2 DEF Free
  <1> QED BY <1>1, <1>2, FolderPlan, DocumentPlan, DocumentMoves, BranchPlan, BranchChanges

-----------------------------------------------------------------------------
(* What is saved                                                           *)

LEMMA ExactlyOne ==
    ASSUME NEW S, S \subseteq BranchIds
    PROVE  Cardinality(S) = 1 <=> \E b : S = {b}
  <1>1. IsFiniteSet(BranchIds)
    BY FS_Interval, LibraryAssumption DEF BranchIds
  <1>2. IsFiniteSet(S)
    BY <1>1, FS_Subset
  <1> QED BY <1>2, FS_Singleton

\* The tables once all of a request's statements are done.
LEMMA AllIsSaved ==
    ASSUME NEW r \in LibraryCall
    PROVE  /\ FoldersAfter(r, MaxDepth + 2) = folders \cup r.newFolders
           /\ DocumentsAfter(r, MaxDepth + 2) = Overlaid(documents, r.documents, Documents)
           /\ BranchesAfter(r, MaxDepth + 2) = Overlaid(branch, r.branches, BranchIds)
  <1>1. MaxDepth \in Nat
    BY LibraryAssumption
  <1>2. r.newFolders \subseteq FolderPaths /\ DOMAIN r.branches = BranchIds
    BY DEF LibraryCall
  <1>3. \A p \in r.newFolders : FolderWave(p) <= MaxDepth + 2
    <2> SUFFICES ASSUME NEW p \in r.newFolders PROVE Len(p) <= MaxDepth + 2
      BY DEF FolderWave
    <2>1. p \in Seq(Names) /\ Len(p) < MaxDepth
      BY <1>2, PathKinds
    <2> QED BY <1>1, <2>1
  <1>4. \A row : BranchWave(row) <= MaxDepth + 2
    BY <1>1 DEF BranchWave
  <1>5. DocumentWave <= MaxDepth + 2
    BY <1>1 DEF DocumentWave
  <1>6. RowsOf(r.branches) \cap {b \in RowsOf(r.branches) : BranchWave(r.branches[b]) <= MaxDepth + 2}
          = RowsOf(r.branches) \cap BranchIds
    BY <1>2, <1>4 DEF RowsOf
  <1>7. BranchesAfter(r, MaxDepth + 2) = Overlaid(branch, r.branches, BranchIds)
    BY <1>6 DEF BranchesAfter, Overlaid
  <1> QED BY <1>3, <1>5, <1>7 DEF FoldersAfter, DocumentsAfter

\* The rows of the tables and of a plan that fits them, and what becomes of them.
LEMMA SavedRows ==
    ASSUME TablesFit, NEW r \in LibraryCall,
           AsLoaded(documents, r.documents), AsLoaded(branch, r.branches),
           PlanFits(r.documents, r.branches),
           NEW ds, ds = Overlaid(documents, r.documents, Documents),
           NEW bs, bs = Overlaid(branch, r.branches, BranchIds)
    PROVE  /\ ds \in DocumentTable /\ bs \in BranchTable
           /\ \A d \in Documents :
                 ds[d] = IF r.documents[d] # None THEN r.documents[d] ELSE documents[d]
           /\ \A b \in BranchIds :
                 bs[b] = IF r.branches[b] # None THEN r.branches[b] ELSE branch[b]
           /\ RowsOf(ds) = RowsOf(documents) \cup RowsOf(r.documents)
           /\ RowsOf(bs) = RowsOf(branch) \cup RowsOf(r.branches)
           /\ \A b \in RowsOf(branch) : /\ bs[b].document = branch[b].document
                                       /\ (bs[b].stamp > branch[b].stamp \/ bs[b] = branch[b])
  <1>1. /\ documents \in DocumentTable /\ branch \in BranchTable
        /\ r.documents \in DocumentTable /\ r.branches \in BranchTable
    BY DEF TablesFit, LibraryTypeOK, LibraryCall, DocumentTable, BranchTable
  <1>2. /\ ds \in DocumentTable
        /\ \A d \in Documents :
              ds[d] = IF r.documents[d] # None THEN r.documents[d] ELSE documents[d]
    <2>1. DOMAIN documents = Documents /\ DOMAIN r.documents = Documents
      BY <1>1 DEF DocumentTable
    <2>2. RowsOf(r.documents) \cap Documents = {k \in Documents : r.documents[k] # None}
      BY <2>1 DEF RowsOf
    <2>3. ds = [k \in Documents |->
                  IF r.documents[k] # None THEN r.documents[k] ELSE documents[k]]
      BY <2>1, <2>2 DEF Overlaid
    <2>4. \A k \in Documents : r.documents[k] \in Document \cup {None}
                               /\ documents[k] \in Document \cup {None}
      BY <1>1 DEF DocumentTable
    <2> QED BY <2>3, <2>4 DEF DocumentTable
  <1>3. /\ bs \in BranchTable
        /\ \A b \in BranchIds :
              bs[b] = IF r.branches[b] # None THEN r.branches[b] ELSE branch[b]
    <2>1. DOMAIN branch = BranchIds /\ DOMAIN r.branches = BranchIds
      BY <1>1 DEF BranchTable
    <2>2. RowsOf(r.branches) \cap BranchIds = {k \in BranchIds : r.branches[k] # None}
      BY <2>1 DEF RowsOf
    <2>3. bs = [k \in BranchIds |->
                  IF r.branches[k] # None THEN r.branches[k] ELSE branch[k]]
      BY <2>1, <2>2 DEF Overlaid
    <2>4. \A k \in BranchIds : r.branches[k] \in BranchRow \cup {None}
                               /\ branch[k] \in BranchRow \cup {None}
      BY <1>1 DEF BranchTable
    <2> QED BY <2>3, <2>4 DEF BranchTable
  <1>4. RowsOf(ds) = RowsOf(documents) \cup RowsOf(r.documents)
    BY <1>1, <1>2 DEF RowsOf, DocumentTable
  <1>5. RowsOf(bs) = RowsOf(branch) \cup RowsOf(r.branches)
    BY <1>1, <1>3 DEF RowsOf, BranchTable
  <1>6. ASSUME NEW b \in RowsOf(branch)
        PROVE  /\ bs[b].document = branch[b].document
               /\ (bs[b].stamp > branch[b].stamp \/ bs[b] = branch[b])
    <2>1. b \in BranchIds /\ branch[b] # None /\ branch[b] \in BranchRow
      BY <1>1 DEF RowsOf, BranchTable
    <2>2. CASE r.branches[b] = None
      BY <2>1, <2>2, <1>3
    <2>3. CASE r.branches[b] # None
      <3>1. b \in RowsOf(r.branches) /\ r.branches[b] \in BranchRow /\ bs[b] = r.branches[b]
        BY <2>1, <2>3, <1>1, <1>3 DEF RowsOf, BranchTable
      <3>2. r.branches[b].stamp # 1 /\ branch[b].stamp = r.branches[b].stamp - 1
        BY <3>1, <2>1 DEF AsLoaded
      <3>3. r.branches[b].stamp \in 1 .. MaxEdits /\ branch[b].stamp \in 1 .. MaxEdits
        BY <2>1, <3>1 DEF BranchRow
      <3>4. r.branches[b].stamp > 1 /\ r.branches[b].stamp > branch[b].stamp
        BY <3>2, <3>3, LibraryAssumption
      <3>5. branch[b].document = r.branches[b].document
        BY <3>1, <3>4 DEF PlanFits, Overwrites
      <3> QED BY <3>1, <3>4, <3>5
    <2> QED BY <2>2, <2>3
  <1> QED BY <1>2, <1>3, <1>4, <1>5, <1>6

LEMMA SavedPathsLead ==
    ASSUME TablesFit, NEW r \in LibraryCall,
           AsLoaded(documents, r.documents), AsLoaded(branch, r.branches),
           PlanFits(r.documents, r.branches),
           NEW fs, fs = folders \cup r.newFolders,
           NEW ds, ds = Overlaid(documents, r.documents, Documents),
           NEW bs, bs = Overlaid(branch, r.branches, BranchIds),
           Constraints(fs, ds, bs)
    PROVE  fs \subseteq FolderPaths /\ PathsLead(fs, ds)
  <1>1. fs \subseteq FolderPaths
    BY DEF TablesFit, LibraryTypeOK, LibraryCall
  <1>2. Unambiguous(fs, ds)
    BY DEF Constraints
  <1>3. ASSUME NEW p \in fs, Len(p) > 1 PROVE Front(p) \in fs
    <2>1. p \in Seq(Names) /\ Len(p) \in Nat
      BY <1>1, PathKinds
    <2>2. Len(Front(p)) = Len(p) - 1
      BY <2>1, <1>3, FrontOf
    <2>3. Front(p) # Root
      BY <2>1, <2>2, <1>3 DEF Root
    <2> QED BY <2>3 DEF Constraints
  <1>4. ASSUME NEW d \in RowsOf(ds)
        PROVE  IF Len(ds[d].path) < 2 THEN ds[d].folder = Root
               ELSE ds[d].folder \in fs /\ EqualFold(ds[d].folder, Front(ds[d].path))
    <2>1. /\ d \in Documents /\ ds \in DocumentTable /\ ds[d] # None
          /\ ds[d] = r.documents[d] \/ ds[d] = documents[d]
          /\ ds[d] = r.documents[d] => d \in RowsOf(r.documents)
          /\ ds[d] = documents[d] => d \in RowsOf(documents)
      <3>1. ds \in DocumentTable /\ DOMAIN r.documents = Documents /\ DOMAIN documents = Documents
        BY SavedRows DEF LibraryCall, TablesFit, LibraryTypeOK
      <3>2. d \in Documents /\ ds[d] # None
        BY <3>1 DEF RowsOf, DocumentTable
      <3>3. ds[d] = IF r.documents[d] # None THEN r.documents[d] ELSE documents[d]
        BY <3>2, SavedRows
      <3> QED BY <3>1, <3>2, <3>3 DEF RowsOf
    <2>2. PlaceFits(ds[d])
      BY <2>1, RowFits DEF PlanFits
    <2>3. CASE Len(ds[d].path) < 2
      BY <2>2, <2>3 DEF PlaceFits
    <2>4. CASE ~(Len(ds[d].path) < 2)
      <3>1. /\ ds[d].path \in DocumentPaths \cup {Root} /\ ds[d].folder \in FolderPaths \cup {Root}
            /\ EqualFold(ds[d].folder, Front(ds[d].path))
        BY <2>2, <2>4 DEF PlaceFits
      <3>2. /\ ds[d].path \in Seq(Names) /\ Len(ds[d].path) \in Nat
            /\ ds[d].folder \in Seq(Names) /\ Len(ds[d].folder) \in Nat
        BY <3>1, PathKinds
      <3>3. /\ Front(ds[d].path) \in Seq(Names)
            /\ Len(Front(ds[d].path)) = Len(ds[d].path) - 1
        BY <3>2, <2>4, FrontOf
      <3>4. Len(ds[d].folder) = Len(ds[d].path) - 1
        BY <3>1, <3>2, <3>3, FoldsAlike
      <3>5. ds[d].folder # Root
        BY <3>2, <3>4, <2>4 DEF Root
      <3> QED BY <3>1, <3>5, <2>4 DEF Constraints
    <2> QED BY <2>3, <2>4
  <1> QED BY <1>1, <1>2, <1>3, <1>4 DEF PathsLead

\* A document that is there keeps exactly one default branch, and a new one has it.
LEMMA SavedDefaults ==
    ASSUME TablesFit, NEW r \in LibraryCall,
           AsLoaded(documents, r.documents), AsLoaded(branch, r.branches),
           PlanFits(r.documents, r.branches),
           NEW fs, NEW ds, ds = Overlaid(documents, r.documents, Documents),
           NEW bs, bs = Overlaid(branch, r.branches, BranchIds),
           Constraints(fs, ds, bs)
    PROVE  OneDefault(ds, bs)
  <1>1. /\ ds \in DocumentTable /\ bs \in BranchTable
        /\ \A b \in BranchIds :
              bs[b] = IF r.branches[b] # None THEN r.branches[b] ELSE branch[b]
        /\ RowsOf(ds) = RowsOf(documents) \cup RowsOf(r.documents)
        /\ RowsOf(bs) = RowsOf(branch) \cup RowsOf(r.branches)
        /\ \A b \in RowsOf(branch) : bs[b].document = branch[b].document
    BY SavedRows
  <1>2. RowsOf(bs) \subseteq BranchIds /\ RowsOf(branch) \subseteq BranchIds
        /\ RowsOf(r.branches) \subseteq BranchIds /\ RowsOf(r.documents) \subseteq Documents
        /\ RowsOf(documents) \subseteq Documents
    BY <1>1 DEF RowsOf, BranchTable, TablesFit, LibraryTypeOK, LibraryCall
  <1>3. \A b \in RowsOf(r.branches) : bs[b] = r.branches[b]
    BY <1>1, <1>2 DEF RowsOf
  <1>4. \A b \in RowsOf(bs) \ RowsOf(r.branches) : b \in RowsOf(branch) /\ bs[b] = branch[b]
    <2> SUFFICES ASSUME NEW b \in RowsOf(bs), b \notin RowsOf(r.branches)
                 PROVE  b \in RowsOf(branch) /\ bs[b] = branch[b]
      OBVIOUS
    <2>1. b \in BranchIds /\ DOMAIN r.branches = BranchIds /\ b \in RowsOf(branch)
      BY <1>1, <1>2 DEF LibraryCall
    <2> QED BY <2>1, <1>1 DEF RowsOf
  <1>5. \A b \in RowsOf(bs) : bs[b].default => bs[b].active
    <2>1. \A b \in RowsOf(branch) : branch[b].default => branch[b].active
      <3> SUFFICES ASSUME NEW b \in RowsOf(branch) PROVE branch[b].default => branch[b].active
        OBVIOUS
      <3>1. branch[b].document \in RowsOf(documents) /\ b \in BranchesOf(branch[b].document, branch)
        BY DEF TablesFit, BranchesOf
      <3> QED BY <3>1 DEF TablesFit, Whole, OneDefault
    <2> QED BY <2>1, <1>1, <1>3, <1>4 DEF PlanFits
  <1>6. ASSUME NEW d \in RowsOf(ds)
        PROVE  \E b \in BranchesOf(d, bs) : bs[b].default
    <2>1. CASE d \in RowsOf(documents)
      <3> DEFINE S == {b \in BranchesOf(d, branch) : branch[b].default}
      <3>1. Cardinality(S) = 1 /\ S \subseteq BranchIds
        BY <2>1, <1>2 DEF TablesFit, Whole, OneDefault, BranchesOf
      <3>2. PICK b : b \in S
        BY <3>1, ExactlyOne
      <3>3. b \in RowsOf(branch) /\ branch[b].document = d /\ branch[b].default
        BY <3>2 DEF BranchesOf
      <3>4. CASE b \notin RowsOf(r.branches)
        BY <3>3, <3>4, <1>1, <1>4 DEF BranchesOf
      <3>5. CASE b \in RowsOf(r.branches)
        <4>1. r.branches[b].stamp \in Int /\ r.branches[b].stamp >= 1
          BY <3>5 DEF LibraryCall, RowsOf, BranchRow
        <4>2. r.branches[b].stamp # 1 /\ branch[b].stamp = r.branches[b].stamp - 1
          BY <3>3, <3>5 DEF AsLoaded, RowsOf
        <4>3. Overwrites(r.branches, b)
          BY <4>1, <4>2, <3>5 DEF PlanFits
        <4>4. PICK e \in RowsOf(r.branches) : r.branches[e].default /\ r.branches[e].document = d
          BY <4>2, <4>3, <3>3 DEF Overwrites
        <4> QED BY <4>4, <1>1, <1>3 DEF BranchesOf
      <3> QED BY <3>4, <3>5
    <2>2. CASE d \notin RowsOf(documents)
      <3>1. d \in RowsOf(r.documents) /\ documents[d] = None
        BY <2>2, <1>1, <1>2 DEF RowsOf, TablesFit, LibraryTypeOK
      <3>2. r.documents[d].stamp = 1
        BY <3>1 DEF AsLoaded
      <3>3. PICK e \in RowsOf(r.branches) : r.branches[e].default /\ r.branches[e].document = d
        BY <3>1, <3>2 DEF PlanFits
      <3> QED BY <3>3, <1>1, <1>3 DEF BranchesOf
    <2> QED BY <2>1, <2>2
  <1>7. ASSUME NEW d \in RowsOf(ds), NEW b \in BranchesOf(d, bs), NEW e \in BranchesOf(d, bs),
               b # e
        PROVE  bs[b].name # bs[e].name /\ ~(bs[b].default /\ bs[e].default)
    BY <1>7 DEF BranchesOf, Constraints
  <1>8. ASSUME NEW d \in RowsOf(ds)
        PROVE  Cardinality({b \in BranchesOf(d, bs) : bs[b].default}) = 1
    <2>1. PICK b \in BranchesOf(d, bs) : bs[b].default
      BY <1>6
    <2>2. {e \in BranchesOf(d, bs) : bs[e].default} = {b}
      BY <2>1, <1>7
    <2> QED BY <2>2, FS_Singleton
  <1> QED BY <1>5, <1>7, <1>8 DEF OneDefault, BranchesOf

LEMMA SavedTables ==
    ASSUME TablesFit, NEW r \in LibraryCall,
           AsLoaded(documents, r.documents), AsLoaded(branch, r.branches),
           PlanFits(r.documents, r.branches),
           NEW fs, fs = folders \cup r.newFolders,
           NEW ds, ds = Overlaid(documents, r.documents, Documents),
           NEW bs, bs = Overlaid(branch, r.branches, BranchIds),
           Constraints(fs, ds, bs)
    PROVE  /\ fs \subseteq FolderPaths /\ ds \in DocumentTable /\ bs \in BranchTable
           /\ Whole(fs, ds, bs)
           /\ \A b \in RowsOf(bs) : bs[b].document \in RowsOf(ds)
           /\ RowsOf(documents) \subseteq RowsOf(ds)
           /\ \A b \in BranchIds : branch[b] # None =>
                 /\ bs[b] # None /\ bs[b].document = branch[b].document
                 /\ (bs[b].stamp > branch[b].stamp \/ bs[b] = branch[b])
  <1>1. fs \subseteq FolderPaths /\ Whole(fs, ds, bs)
    BY SavedPathsLead, SavedDefaults DEF Whole
  <1>2. \A b \in RowsOf(bs) : bs[b].document \in RowsOf(ds)
    BY DEF Constraints
  <1>3. /\ ds \in DocumentTable /\ bs \in BranchTable
        /\ RowsOf(documents) \subseteq RowsOf(ds) /\ RowsOf(branch) \subseteq RowsOf(bs)
        /\ \A b \in RowsOf(branch) : /\ bs[b].document = branch[b].document
                                    /\ (bs[b].stamp > branch[b].stamp \/ bs[b] = branch[b])
    BY SavedRows
  <1>4. ASSUME NEW b \in BranchIds, branch[b] # None
        PROVE  /\ bs[b] # None /\ bs[b].document = branch[b].document
               /\ (bs[b].stamp > branch[b].stamp \/ bs[b] = branch[b])
    <2>1. b \in RowsOf(branch)
      BY <1>4 DEF TablesFit, LibraryTypeOK, RowsOf
    <2>2. b \in RowsOf(bs)
      BY <2>1, <1>3
    <2> QED BY <2>1, <2>2, <1>3 DEF RowsOf
  <1> QED BY <1>1, <1>2, <1>3, <1>4

LEMMA LibrarySaves ==
    ASSUME LibraryInvariant, NEW c \in Clients, SaveLibrary(c)
    PROVE  TablesFit' /\ TablesAdvance
  <1> DEFINE saved == /\ StillAllowed(call[c])
                      /\ AsLoaded(documents, call[c].documents)
                      /\ AsLoaded(branch, call[c].branches)
                      /\ NewRowsFit(call[c])
  <1>1. CASE ~saved
    <2>1. UNCHANGED libraryVars
      BY <1>1 DEF SaveLibrary
    <2>2. folders' = folders /\ documents' = documents /\ branch' = branch
      BY <2>1 DEF libraryVars
    <2>3. TablesFit
      BY DEF LibraryInvariant
    <2>4. TablesFit'
      BY <2>2, <2>3 DEF TablesFit, LibraryTypeOK, RowsOf
    <2>5. \A b \in BranchIds : branch[b] # None => branch'[b] = branch[b]
      BY <2>2
    <2>6. RowsOf(documents)' = RowsOf(documents)
      BY <2>2
    <2> QED BY <2>2, <2>4, <2>5, <2>6 DEF TablesAdvance
  <1>2. CASE saved
    <2> DEFINE last == MaxDepth + 2
    <2>1. PICK r : r = call[c]
      OBVIOUS
    <2>2. r \in LibraryCall /\ PlanFits(r.documents, r.branches) /\ TablesFit
      BY <2>1 DEF SaveLibrary, At, LibraryInvariant, LibraryRequest
    <2>3. last \in Waves
      BY LibraryAssumption DEF Waves
    <2>4. Constraints(FoldersAfter(r, last), DocumentsAfter(r, last), BranchesAfter(r, last))
      BY <1>2, <2>1, <2>3 DEF NewRowsFit
    <2>5. /\ folders' = FoldersAfter(r, last) /\ documents' = DocumentsAfter(r, last)
          /\ branch' = BranchesAfter(r, last)
      BY <1>2, <2>1 DEF SaveLibrary
    <2>6. /\ FoldersAfter(r, last) = folders \cup r.newFolders
          /\ DocumentsAfter(r, last) = Overlaid(documents, r.documents, Documents)
          /\ BranchesAfter(r, last) = Overlaid(branch, r.branches, BranchIds)
      BY <2>2, AllIsSaved
    <2>7. /\ folders' = folders \cup r.newFolders
          /\ documents' = Overlaid(documents, r.documents, Documents)
          /\ branch' = Overlaid(branch, r.branches, BranchIds)
          /\ Constraints(folders', documents', branch')
      BY <2>4, <2>5, <2>6
    <2>8. AsLoaded(documents, r.documents) /\ AsLoaded(branch, r.branches)
      BY <1>2, <2>1
    <2>9. PICK fs, ds, bs : fs = folders' /\ ds = documents' /\ bs = branch'
      OBVIOUS
    <2>10. /\ fs \subseteq FolderPaths /\ ds \in DocumentTable /\ bs \in BranchTable
           /\ Whole(fs, ds, bs)
           /\ \A b \in RowsOf(bs) : bs[b].document \in RowsOf(ds)
           /\ RowsOf(documents) \subseteq RowsOf(ds)
           /\ \A b \in BranchIds : branch[b] # None =>
                 /\ bs[b] # None /\ bs[b].document = branch[b].document
                 /\ (bs[b].stamp > branch[b].stamp \/ bs[b] = branch[b])
      BY <2>2, <2>7, <2>8, <2>9, SavedTables
    <2>11. TablesFit'
      BY <2>9, <2>10 DEF TablesFit, LibraryTypeOK, DocumentTable, BranchTable
    <2>12. RowsOf(documents)' = RowsOf(ds)
      BY <2>9
    <2> QED BY <2>9, <2>10, <2>11, <2>12 DEF TablesAdvance
  <1> QED BY <1>1, <1>2

-----------------------------------------------------------------------------
(* The invariant holds                                                     *)

LEMMA UnchangedTables ==
    ASSUME LibraryInvariant, UNCHANGED libraryVars
    PROVE  TablesFit' /\ TablesAdvance
  <1>1. folders' = folders /\ documents' = documents /\ branch' = branch
    BY DEF libraryVars
  <1>2. TablesFit
    BY DEF LibraryInvariant
  <1>3. TablesFit'
    BY <1>1, <1>2 DEF TablesFit, LibraryTypeOK, RowsOf
  <1>4. \A b \in BranchIds : branch[b] # None => branch'[b] = branch[b]
    BY <1>1
  <1>5. RowsOf(documents)' = RowsOf(documents)
    BY <1>1
  <1> QED BY <1>1, <1>3, <1>4, <1>5 DEF TablesAdvance

\* A request that waits is as good as it was.
LEMMA WaitingRequest ==
    ASSUME LibraryInvariant, TablesFit', TablesAdvance, NEW d \in Clients, call'[d] = call[d]
    PROVE  LibraryRequest(call[d])'
  <1>1. PICK r : r = call[d]
    OBVIOUS
  <1>2. LibraryRequest(r)
    BY <1>1 DEF LibraryInvariant
  <1>3. LibraryRequest(r)'
    <2>1. CASE r.kind \notin LibraryKinds
      BY <2>1 DEF LibraryRequest
    <2>2. CASE r.kind \in LibraryKinds
      <3>1. /\ r \in LibraryCall /\ r.branches \in BranchTable
            /\ PlanFits(r.documents, r.branches)
        BY <1>2, <2>2 DEF LibraryRequest, LibraryCall, BranchTable
      <3>2. LibraryTypeOK /\ LibraryTypeOK'
        BY DEF LibraryInvariant, TablesFit
      <3>3. PlanFits(r.documents, r.branches)'
        BY <3>1, <3>2, PlansSurvive
      <3> QED BY <3>1, <3>3 DEF LibraryRequest
    <2> QED BY <2>1, <2>2
  <1>4. call'[d] = r
    BY <1>1
  <1> QED BY <1>3, <1>4

\* One client's step, after which its own request is good.
LEMMA LibraryInvariantKept ==
    ASSUME LibraryInvariant, Formed', TablesFit', TablesAdvance, NEW c \in Clients,
           LibraryRequest(call[c])', \A d \in Clients \ {c} : call'[d] = call[d]
    PROVE  LibraryInvariant'
  <1>1. ASSUME NEW d \in Clients PROVE LibraryRequest(call[d])'
    BY WaitingRequest
  <1> QED BY <1>1 DEF LibraryInvariant

LEMMA OthersKeepLibrary ==
    ASSUME LibraryInvariant, UNCHANGED libraryVars,
           NEW kinds, Moves(kinds), kinds \cap LibraryKinds = {}
    PROVE  LibraryInvariant'
  <1>1. TablesFit' /\ TablesAdvance
    BY UnchangedTables
  <1>2. PICK c \in Clients : /\ call'[c].kind \in kinds \cup {"none"}
                             /\ \A d \in Clients \ {c} : call'[d] = call[d]
    BY DEF Moves
  <1>3. "none" \notin LibraryKinds
    BY DEF LibraryKinds
  <1>4. LibraryRequest(call[c])'
    BY <1>2, <1>3 DEF LibraryRequest
  <1>5. Formed'
    BY DEF Moves
  <1> QED BY <1>1, <1>2, <1>4, <1>5, LibraryInvariantKept

LEMMA UnchangedKeepsLibrary ==
    ASSUME LibraryInvariant, UNCHANGED <<call, libraryVars>>
    PROVE  LibraryInvariant'
  <1>1. TablesFit' /\ TablesAdvance
    BY UnchangedTables
  <1>2. \A d \in Clients : LibraryRequest(call[d])'
    BY <1>1, WaitingRequest
  <1>3. Formed'
    BY DEF LibraryInvariant, Formed
  <1> QED BY <1>1, <1>2, <1>3 DEF LibraryInvariant

LEMMA LibraryKeepsItself ==
    ASSUME LibraryInvariant, LibraryNext
    PROVE  LibraryInvariant'
  <1>1. PICK c \in Clients : (call[c] = Idle /\ PlansWell(c)) \/ SaveLibrary(c)
    BY LibraryPlansWell DEF LibraryInvariant
  <1>2. Formed
    BY DEF LibraryInvariant
  <1>3. CASE PlansWell(c)
    <2>1. PICK r : Enter(c, r) /\ r \in LibraryCall /\ PlanFits(r.documents, r.branches)
      BY <1>3 DEF PlansWell
    <2>2. TablesFit' /\ TablesAdvance
      BY <1>3, UnchangedTables DEF PlansWell
    <2>3. {"kind", "step"} \subseteq DOMAIN r
      BY <2>1 DEF LibraryCall
    <2>4. call'[c] = r /\ (\A d \in Clients \ {c} : call'[d] = call[d]) /\ Formed'
      BY <1>2, <2>1, <2>3, Entered, EnteredIsFormed
    <2>5. PlanFits(r.documents, r.branches)'
      <3>1. folders' = folders /\ documents' = documents /\ branch' = branch
        BY <1>3 DEF PlansWell, libraryVars
      <3> QED BY <2>1, <3>1 DEF PlanFits, Overwrites
    <2>6. LibraryRequest(r)'
      BY <2>1, <2>5 DEF LibraryRequest
    <2> QED BY <2>2, <2>4, <2>6, LibraryInvariantKept
  <1>4. CASE SaveLibrary(c)
    <2>1. TablesFit' /\ TablesAdvance
      BY <1>4, LibrarySaves
    <2>2. Leave(c)
      BY <1>4 DEF SaveLibrary
    <2>3. /\ call'[c].kind = "none" /\ \A d \in Clients \ {c} : call'[d] = call[d]
          /\ Formed'
      BY <1>2, <2>2, Left
    <2>4. LibraryRequest(call[c])'
      BY <2>3 DEF LibraryRequest, LibraryKinds
    <2> QED BY <2>1, <2>3, <2>4, LibraryInvariantKept
  <1> QED BY <1>1, <1>3, <1>4

LEMMA LibraryInvariantHoldsOn ==
    ASSUME LibraryInvariant, [Next]_vars
    PROVE  LibraryInvariant'
  <1>0. Formed
    BY DEF LibraryInvariant
  <1>1. CASE WorkspaceEvent /\ UNCHANGED <<shareVars, tokenVars, chatVars, libraryVars>>
    <2>1. UNCHANGED call
      BY <1>1, Zenon DEF WorkspaceEvent, SwitchAccount, ChangeRole, Archive, Publish, Tick, Event
    <2> QED BY <1>1, <2>1, UnchangedKeepsLibrary
  <1>2. CASE ShareNext /\ UNCHANGED <<tokenVars, chatVars, libraryVars>>
    BY <1>0, <1>2, ShareStepsMove, KindsApart, OthersKeepLibrary
  <1>3. CASE TokenNext /\ UNCHANGED <<shareVars, chatVars, libraryVars>>
    <2>1. TokenKinds \cap LibraryKinds = {}
      BY DEF TokenKinds, LibraryKinds
    <2> QED BY <1>0, <1>3, <2>1, TokenStepsMove, OthersKeepLibrary, UnchangedKeepsLibrary
  <1>4. CASE RotationNext /\ UNCHANGED <<chatVars, libraryVars>>
    <2>1. {"rotate"} \cap LibraryKinds = {}
      BY DEF LibraryKinds
    <2> QED BY <1>0, <1>4, <2>1, RotationStepsMove, OthersKeepLibrary
  <1>5. CASE ChatNext /\ UNCHANGED <<shareVars, tokenVars, libraryVars>>
    BY <1>0, <1>5, ChatStepsMove, KindsApart, OthersKeepLibrary
  <1>6. CASE LibraryNext
    BY <1>6, LibraryKeepsItself
  <1>7. CASE UNCHANGED vars
    BY <1>7, UnchangedKeepsLibrary DEF vars
  <1> QED BY <1>1, <1>2, <1>3, <1>4, <1>5, <1>6, <1>7 DEF Next

LEMMA FirstTablesFit ==
    ASSUME LibraryInit
    PROVE  TablesFit
  <1>0. folders = {} /\ Unambiguous({}, Nowhere)
    BY DEF LibraryInit, Unambiguous, Nowhere, RowsOf
  <1>1. CASE documents = Nowhere /\ branch = NoBranches
    <2>1. /\ documents \in DocumentTable /\ RowsOf(documents) = {}
          /\ branch \in BranchTable /\ RowsOf(branch) = {}
      BY <1>1, NothingPlanned
    <2> QED BY <1>0, <2>1
        DEF TablesFit, LibraryTypeOK, Whole, PathsLead, Unambiguous, OneDefault,
            DocumentTable, BranchTable
  <1>2. CASE \E d \in Documents, name \in DocumentNames :
                /\ documents = [Nowhere EXCEPT ![d] =
                      [name |-> name, path |-> Root, folder |-> Root, active |-> TRUE, stamp |-> 1]]
                /\ branch = DefaultEnvironmentBranches(d, 1)
    <2> DEFINE Row(n) == [name |-> n, path |-> Root, folder |-> Root, active |-> TRUE, stamp |-> 1]
    <2>0. PICK name \in DocumentNames :
             \E d \in Documents : /\ documents = [Nowhere EXCEPT ![d] = Row(name)]
                                  /\ branch = DefaultEnvironmentBranches(d, 1)
      BY <1>2
    <2> DEFINE row == Row(name)
    <2>1. PICK d \in Documents : /\ documents = [Nowhere EXCEPT ![d] = row]
                                 /\ branch = DefaultEnvironmentBranches(d, 1)
      BY <2>0
    <2>2. row \in Document /\ row.path = Root /\ row.folder = Root
      BY LibraryAssumption DEF Document
    <2> HIDE DEF row
    <2>3. documents \in DocumentTable /\ RowsOf(documents) = {d} /\ documents[d] = row
      BY <2>1, <2>2, OneDocument
    <2>4. {1, 2, 3} \subseteq BranchIds
      BY LibraryAssumption DEF BranchIds
    <2>5. PICK first : first = 1 /\ first \in BranchIds /\ first + 1 = 2 /\ first + 2 = 3
      BY <2>4
    <2>6. PathsLead(folders, documents)
      <3>1. Len(Root) = 0
        BY DEF Root
      <3> QED BY <1>0, <2>2, <2>3, <3>1 DEF PathsLead, Unambiguous
    <2>7. LET bs == branch IN
          /\ bs \in BranchTable
          /\ RowsOf(bs) = {first, first + 1, first + 2}
          /\ \A b \in RowsOf(bs) : /\ bs[b].document = d /\ bs[b].active /\ bs[b].stamp = 1
                                   /\ bs[b].default <=> b = first
          /\ bs[first].name = "dev" /\ bs[first + 1].name = "test"
          /\ bs[first + 2].name = "prod"
      BY <2>1, <2>4, <2>5, FirstBranches
    <2>8. BranchesOf(d, branch) = RowsOf(branch)
      BY <2>7 DEF BranchesOf
    <2>9. OneDefault(documents, branch)
      <3>1. {b \in BranchesOf(d, branch) : branch[b].default} = {first}
        BY <2>7, <2>8
      <3>2. \A b, e \in RowsOf(branch) : branch[b].name = branch[e].name => b = e
        BY <2>7
      <3>3. Cardinality({first}) = 1
        BY FS_Singleton
      <3>4. Cardinality({b \in BranchesOf(d, branch) : branch[b].default}) = 1
        BY <3>1, <3>3, Zenon
      <3>5. \A b, e \in BranchesOf(d, branch) :
               (branch[b].name = branch[e].name => b = e) /\ (branch[b].default => branch[b].active)
        BY <2>7, <2>8, <3>2
      <3> QED BY <2>3, <3>4, <3>5 DEF OneDefault
    <2> QED BY <1>0, <2>3, <2>6, <2>7, <2>9
        DEF TablesFit, LibraryTypeOK, Whole, DocumentTable, BranchTable
  <1> QED BY <1>1, <1>2 DEF LibraryInit

LEMMA LibraryInvariantHolds == Spec => []LibraryInvariant
  <1>1. Init => LibraryInvariant
    <2> SUFFICES ASSUME Init PROVE LibraryInvariant
      OBVIOUS
    <2>1. /\ call = [c \in Clients |-> Idle]
          /\ \A c \in Clients : call[c].kind = "none" /\ {"kind", "step"} \subseteq DOMAIN call[c]
      BY DEF Init, WorkspaceInit, Idle
    <2>2. "none" \notin LibraryKinds
      BY DEF LibraryKinds
    <2>3. TablesFit
      BY FirstTablesFit DEF Init
    <2> QED BY <2>1, <2>2, <2>3 DEF LibraryInvariant, Formed, LibraryRequest
  <1>2. LibraryInvariant /\ [Next]_vars => LibraryInvariant'
    BY LibraryInvariantHoldsOn
  <1> QED BY <1>1, <1>2, PTL DEF Spec

-----------------------------------------------------------------------------
(* The order of the statements                                             *)

\* What is whole meets the constraints on branches.
LEMMA TwoBranches ==
    ASSUME NEW ds, NEW bs \in BranchTable, OneDefault(ds, bs),
           NEW b \in RowsOf(bs), NEW e \in RowsOf(bs), b # e,
           bs[b].document = bs[e].document, bs[b].document \in RowsOf(ds)
    PROVE  bs[b].name # bs[e].name /\ ~(bs[b].default /\ bs[e].default)
  <1> DEFINE d == bs[b].document
             S == {x \in BranchesOf(d, bs) : bs[x].default}
  <1>1. d \in RowsOf(ds) /\ b \in BranchesOf(d, bs) /\ e \in BranchesOf(d, bs)
    BY DEF BranchesOf
  <1>2. bs[b].name # bs[e].name /\ Cardinality(S) = 1
    BY <1>1 DEF OneDefault
  <1>3. S \subseteq BranchIds
    BY DEF BranchesOf, RowsOf, BranchTable
  <1>4. PICK x : S = {x}
    BY <1>2, <1>3, ExactlyOne
  <1>5. ~(bs[b].default /\ bs[e].default)
    BY <1>1, <1>4
  <1> QED BY <1>2, <1>5

\* Folders, whichever of the new ones are there.
LEMMA FoldersInOrder ==
    ASSUME TablesFit, NEW r \in LibraryCall, NEW w \in Waves,
           NEW fs, fs = folders \cup r.newFolders,
           \A p \in fs : Len(p) > 1 => Front(p) \in fs
    PROVE  /\ FoldersAfter(r, w) \subseteq fs
           /\ \A p \in FoldersAfter(r, w) : Front(p) \in FoldersAfter(r, w) \cup {Root}
           /\ w >= MaxDepth => FoldersAfter(r, w) = fs
  <1>1. fs \subseteq FolderPaths /\ folders \subseteq FolderPaths
    BY DEF TablesFit, LibraryTypeOK, LibraryCall
  <1>2. w \in Int
    BY DEF Waves
  <1>3. ASSUME NEW p \in FolderPaths
        PROVE  /\ Len(p) \in Nat /\ Len(p) >= 1 /\ Len(p) < MaxDepth
               /\ Len(p) = 1 => Front(p) = Root
               /\ Len(p) > 1 => Front(p) \in Seq(Names) /\ Len(Front(p)) = Len(p) - 1
    <2>1. p \in Seq(Names) /\ Len(p) \in Nat /\ Len(p) >= 1 /\ Len(p) < MaxDepth
      BY PathKinds
    <2>2. Front(p) \in Seq(Names) /\ Len(Front(p)) = Len(p) - 1
      BY <2>1, FrontOf
    <2>3. Len(p) = 1 => Front(p) = Root
      BY <2>1, <2>2 DEF Root
    <2> QED BY <2>1, <2>2, <2>3
  <1>4. FoldersAfter(r, w) = folders \cup {p \in r.newFolders : Len(p) <= w}
    BY DEF FoldersAfter, FolderWave
  <1>5. ASSUME NEW p \in FoldersAfter(r, w)
        PROVE  Front(p) \in FoldersAfter(r, w) \cup {Root}
    <2>1. p \in FolderPaths /\ p \in fs
      BY <1>1, <1>4
    <2>2. CASE Len(p) = 1
      BY <2>1, <2>2, <1>3
    <2>3. CASE Len(p) > 1 /\ p \in folders
      BY <2>3, <1>4 DEF TablesFit, Whole, PathsLead
    <2>4. CASE Len(p) > 1 /\ p \notin folders
      <3>1. Len(p) <= w /\ Front(p) \in fs
        BY <2>1, <2>4, <1>4
      <3>2. Len(Front(p)) <= w
        BY <3>1, <2>1, <2>4, <1>2, <1>3
      <3> QED BY <3>1, <3>2, <1>4
    <2>5. Len(p) = 1 \/ Len(p) > 1
      <3>1. PICK n \in Nat : n = Len(p) /\ n >= 1
        BY <2>1, <1>3
      <3>2. n = 1 \/ n > 1
        BY <3>1
      <3> QED BY <3>1, <3>2
    <2> QED BY <2>2, <2>3, <2>4, <2>5
  <1>6. w >= MaxDepth => FoldersAfter(r, w) = fs
    <2> SUFFICES ASSUME w >= MaxDepth PROVE \A p \in r.newFolders : Len(p) <= w
      BY <1>4
    <2> SUFFICES ASSUME NEW p \in r.newFolders PROVE Len(p) <= w
      OBVIOUS
    <2>1. Len(p) \in Nat /\ Len(p) < MaxDepth
      BY <1>1, <1>3
    <2> QED BY <2>1, <1>2, LibraryAssumption
  <1> QED BY <1>4, <1>5, <1>6

\* The branches in between: those that are no default are written, the others are
\* not yet.
LEMMA BranchesInOrder ==
    ASSUME TablesFit, NEW r \in LibraryCall, AsLoaded(branch, r.branches),
           AsLoaded(documents, r.documents), PlanFits(r.documents, r.branches),
           NEW ds, ds = Overlaid(documents, r.documents, Documents),
           NEW bs, bs = Overlaid(branch, r.branches, BranchIds),
           OneDefault(ds, bs),
           NEW mid, mid = Overlaid(branch, r.branches,
                             {b \in RowsOf(r.branches) : ~r.branches[b].default}),
           NEW b \in RowsOf(mid), NEW e \in RowsOf(mid), b # e,
           mid[b].document = mid[e].document
    PROVE  mid[b].name # mid[e].name /\ ~(mid[b].default /\ mid[e].default)
  <1> DEFINE Changed(k) == k \in RowsOf(r.branches) /\ ~r.branches[k].default
             Pending(k) == k \in RowsOf(r.branches) /\ r.branches[k].default
  <1>1. /\ ds \in DocumentTable /\ bs \in BranchTable /\ branch \in BranchTable
        /\ RowsOf(ds) = RowsOf(documents) \cup RowsOf(r.documents)
        /\ RowsOf(bs) = RowsOf(branch) \cup RowsOf(r.branches)
        /\ \A k \in BranchIds :
              bs[k] = IF r.branches[k] # None THEN r.branches[k] ELSE branch[k]
        /\ \A k \in RowsOf(branch) : bs[k].document = branch[k].document
    <2>1. branch \in BranchTable
      BY DEF TablesFit, LibraryTypeOK, BranchTable
    <2>2. /\ ds \in DocumentTable /\ bs \in BranchTable
          /\ RowsOf(ds) = RowsOf(documents) \cup RowsOf(r.documents)
          /\ RowsOf(bs) = RowsOf(branch) \cup RowsOf(r.branches)
          /\ \A k \in BranchIds :
                bs[k] = IF r.branches[k] # None THEN r.branches[k] ELSE branch[k]
          /\ \A k \in RowsOf(branch) : bs[k].document = branch[k].document
      BY SavedRows, Zenon
    <2> QED BY <2>1, <2>2, Zenon
  <1>2. /\ DOMAIN mid = BranchIds /\ DOMAIN r.branches = BranchIds /\ DOMAIN branch = BranchIds
        /\ DOMAIN bs = BranchIds
        /\ \A k \in BranchIds : mid[k] = IF Changed(k) THEN r.branches[k] ELSE branch[k]
    BY <1>1 DEF Overlaid, BranchTable, LibraryCall
  <1>3. ASSUME NEW k \in RowsOf(mid)
        PROVE  /\ k \in BranchIds /\ k \in RowsOf(bs)
               /\ mid[k].document = bs[k].document
               /\ bs[k].document \in RowsOf(ds)
               /\ ~Changed(k) => /\ k \in RowsOf(branch) /\ mid[k] = branch[k]
                                 /\ branch[k].document \in RowsOf(documents)
               /\ ~Pending(k) => mid[k] = bs[k]
    <2>1. k \in BranchIds /\ mid[k] # None
      BY <1>2 DEF RowsOf
    <2>2. CASE Changed(k)
      <3>1. k \in RowsOf(r.branches) /\ bs[k] = r.branches[k] /\ mid[k] = r.branches[k]
        BY <2>1, <2>2, <1>1, <1>2 DEF RowsOf
      <3>2. r.branches[k].document \in RowsOf(ds)
        BY <3>1, <1>1 DEF PlanFits
      <3> QED BY <2>1, <2>2, <3>1, <3>2, <1>1
    <2>3. CASE ~Changed(k)
      <3>1. mid[k] = branch[k] /\ k \in RowsOf(branch)
        BY <2>1, <2>3, <1>2 DEF RowsOf
      <3>2. branch[k].document \in RowsOf(documents) /\ bs[k].document = branch[k].document
        BY <3>1, <1>1 DEF TablesFit
      <3>3. ~Pending(k) => bs[k] = branch[k]
        BY <2>1, <2>3, <1>1, <1>2 DEF RowsOf
      <3> QED BY <2>1, <2>3, <3>1, <3>2, <3>3, <1>1
    <2> QED BY <2>2, <2>3
  <1>4. bs[b].name # bs[e].name /\ ~(bs[b].default /\ bs[e].default)
    <2>1. /\ b \in RowsOf(bs) /\ e \in RowsOf(bs) /\ bs[b].document = bs[e].document
          /\ bs[b].document \in RowsOf(ds) /\ bs \in BranchTable
      BY <1>1, <1>3
    <2> QED BY <2>1, TwoBranches, Zenon
  <1>5. ASSUME ~Changed(b), ~Changed(e)
        PROVE  branch[b].name # branch[e].name /\ ~(branch[b].default /\ branch[e].default)
    <2>1. /\ b \in RowsOf(branch) /\ e \in RowsOf(branch)
          /\ branch[b].document = branch[e].document
          /\ branch[b].document \in RowsOf(documents) /\ branch \in BranchTable
      BY <1>1, <1>3, <1>5
    <2>2. OneDefault(documents, branch)
      BY DEF TablesFit, Whole
    <2> QED BY <2>1, <2>2, TwoBranches, Zenon
  \* A branch that is written before a default that waits has its old name.
  <1>6. ASSUME NEW k \in RowsOf(mid), NEW l \in RowsOf(mid), k # l, Pending(k), Changed(l),
               mid[k].document = mid[l].document
        PROVE  mid[k].name # mid[l].name
    <2>1. /\ k \in RowsOf(branch) /\ mid[k] = branch[k] /\ k \in BranchIds /\ l \in BranchIds
          /\ branch[k].document \in RowsOf(documents)
      BY <1>3, <1>6
    <2>2. /\ k \in RowsOf(r.branches) \ {l} /\ l \in RowsOf(r.branches) \ {k}
          /\ mid[l] = r.branches[l] /\ ~r.branches[l].default
          /\ r.branches[k] \in BranchRow /\ r.branches[l] \in BranchRow
      BY <1>2, <1>6, <2>1 DEF RowsOf, LibraryCall
    <2>3. r.branches[k].stamp # 1 /\ branch[k].stamp = r.branches[k].stamp - 1
      BY <2>1, <2>2 DEF AsLoaded, RowsOf
    <2>4. r.branches[k].stamp > 1
      BY <2>2, <2>3, LibraryAssumption DEF BranchRow
    <2>5. r.branches[l].stamp > 1
      BY <2>2, <2>3, <2>4 DEF PlanFits, Overwrites
    <2>6. Overwrites(r.branches, l)
      BY <2>2, <2>5 DEF PlanFits
    <2>7. branch[l] # None /\ l \in RowsOf(branch) /\ branch[l].document = mid[l].document
      BY <2>1, <2>2, <2>6, <1>2 DEF Overwrites, RowsOf
    <2>8. branch[l].stamp = r.branches[l].stamp - 1
      BY <2>2, <2>7 DEF AsLoaded, RowsOf
    <2>9. mid[l].name = branch[l].name
      BY <2>2, <2>6, <2>8 DEF Overwrites
    <2>10. /\ OneDefault(documents, branch) /\ branch \in BranchTable /\ k # l
           /\ k \in RowsOf(branch) /\ l \in RowsOf(branch)
           /\ branch[k].document = branch[l].document
           /\ branch[k].document \in RowsOf(documents)
      BY <2>1, <2>7, <1>1, <1>6 DEF TablesFit, Whole
    <2>11. branch[k].name # branch[l].name
      BY <2>10, TwoBranches, Zenon
    <2> QED BY <2>1, <2>9, <2>11
  <1>7. mid[b].name # mid[e].name
    <2>1. CASE ~Changed(b) /\ ~Changed(e)
      BY <2>1, <1>3, <1>5
    <2>2. CASE ~Pending(b) /\ ~Pending(e)
      BY <2>2, <1>3, <1>4
    <2>3. CASE Pending(b) /\ Changed(e)
      BY <2>3, <1>6
    <2>4. CASE Pending(e) /\ Changed(b)
      BY <2>4, <1>6
    <2>5. ~(Pending(b) /\ Changed(b)) /\ ~(Pending(e) /\ Changed(e))
      OBVIOUS
    <2> HIDE DEF Changed, Pending
    <2> QED BY <2>1, <2>2, <2>3, <2>4, <2>5, Zenon
  <1>8. ~(mid[b].default /\ mid[e].default)
    <2>1. \A k \in RowsOf(mid) : Changed(k) => ~mid[k].default
      BY <1>2, <1>3
    <2> HIDE DEF Changed
    <2> QED BY <2>1, <1>3, <1>5
  <1> QED BY <1>7, <1>8

\* A plan that leaves the library whole is never refused for the order in which its
\* statements come.
LEMMA OrderNeverRefuses ==
    ASSUME TablesFit, NEW r \in LibraryCall, AsLoaded(branch, r.branches),
           AsLoaded(documents, r.documents), PlanFits(r.documents, r.branches),
           r.newFolders \cap folders = {},
           NEW fs, fs = folders \cup r.newFolders,
           NEW ds, ds = Overlaid(documents, r.documents, Documents),
           NEW bs, bs = Overlaid(branch, r.branches, BranchIds),
           Whole(fs, ds, bs)
    PROVE  NewRowsFit(r)
  <1>1. \A p \in r.newFolders : \A f \in folders : ~EqualFold(p, f)
    BY DEF Whole, PathsLead, Unambiguous
  <1>2. /\ RowsOf(ds) = RowsOf(documents) \cup RowsOf(r.documents)
        /\ RowsOf(bs) = RowsOf(branch) \cup RowsOf(r.branches)
        /\ bs \in BranchTable /\ branch \in BranchTable
        /\ \A k \in BranchIds :
              bs[k] = IF r.branches[k] # None THEN r.branches[k] ELSE branch[k]
    BY SavedRows DEF TablesFit, LibraryTypeOK, BranchTable
  <1>3. ASSUME NEW w \in Waves
        PROVE  Constraints(FoldersAfter(r, w), DocumentsAfter(r, w), BranchesAfter(r, w))
    <2> DEFINE fsw == FoldersAfter(r, w)
               dsw == DocumentsAfter(r, w)
               bsw == BranchesAfter(r, w)
    <2>1. w \in Int /\ MaxDepth \in Int /\ w <= MaxDepth + 2
      BY LibraryAssumption DEF Waves
    <2>2. \A p \in fs : Len(p) > 1 => Front(p) \in fs
      BY DEF Whole, PathsLead
    <2>3. /\ fsw \subseteq fs /\ \A p \in fsw : Front(p) \in fsw \cup {Root}
          /\ w >= MaxDepth => fsw = fs
      BY <2>2, FoldersInOrder
    <2>4. IF w >= MaxDepth THEN dsw = ds ELSE dsw = documents
      <3>1. CASE w >= MaxDepth
        BY <3>1, <2>1 DEF DocumentsAfter, DocumentWave
      <3>2. CASE ~(w >= MaxDepth)
        <4>1. dsw = Overlaid(documents, r.documents, {})
          BY <3>2, <2>1 DEF DocumentsAfter, DocumentWave
        <4>2. documents = [d \in DOMAIN documents |-> documents[d]]
          BY DEF TablesFit, LibraryTypeOK
        <4> QED BY <3>2, <4>1, <4>2 DEF Overlaid
      <3> QED BY <3>1, <3>2
    <2>5. \/ w <= MaxDepth /\ bsw = branch
          \/ w = MaxDepth + 1
               /\ bsw = Overlaid(branch, r.branches,
                                 {b \in RowsOf(r.branches) : ~r.branches[b].default})
          \/ w = MaxDepth + 2 /\ bsw = bs
      <3>1. CASE w <= MaxDepth
        <4>1. \A row : ~(BranchWave(row) <= w)
          BY <3>1, <2>1 DEF BranchWave
        <4>2. bsw = Overlaid(branch, r.branches, {})
          BY <4>1 DEF BranchesAfter
        <4>3. branch = [b \in DOMAIN branch |-> branch[b]]
          BY <1>2 DEF BranchTable
        <4> QED BY <3>1, <4>2, <4>3 DEF Overlaid
      <3>2. CASE w = MaxDepth + 1
        <4>1. \A row : BranchWave(row) <= w <=> ~row.default
          BY <3>2, <2>1 DEF BranchWave
        <4> QED BY <3>2, <4>1 DEF BranchesAfter
      <3>3. CASE w = MaxDepth + 2
        BY <3>3, AllIsSaved
      <3>4. w <= MaxDepth \/ w = MaxDepth + 1 \/ w = MaxDepth + 2
        BY <2>1
      <3> QED BY <3>1, <3>2, <3>3, <3>4
    <2> HIDE DEF fsw, dsw, bsw
    <2>6. Unambiguous(fsw, dsw)
      <3>1. Unambiguous(fs, ds) /\ Unambiguous(folders, documents)
        BY DEF Whole, PathsLead, TablesFit
      <3> QED BY <3>1, <2>3, <2>4 DEF Unambiguous
    <2>7. \A d \in RowsOf(dsw) : dsw[d].folder \in fsw \cup {Root}
      <3>1. CASE w >= MaxDepth
        BY <3>1, <2>3, <2>4 DEF Whole, PathsLead
      <3>2. CASE ~(w >= MaxDepth)
        <4>1. folders \subseteq fsw
          BY DEF fsw, FoldersAfter
        <4> QED BY <3>2, <4>1, <2>4 DEF Whole, PathsLead, TablesFit
      <3> QED BY <3>1, <3>2
    <2>8. \A b \in RowsOf(branch) : branch[b].document \in RowsOf(documents)
      BY DEF TablesFit
    <2>9. RowsOf(documents) \subseteq RowsOf(dsw)
      BY <1>2, <2>4
    <2>10. \A b \in RowsOf(r.branches) : r.branches[b].document \in RowsOf(ds)
      BY <1>2 DEF PlanFits
    <2>11. \A b \in RowsOf(bsw) : bsw[b].document \in RowsOf(dsw)
      <3>1. CASE bsw = branch
        BY <3>1, <2>8, <2>9
      <3>2. CASE bsw # branch
        <4>1. w >= MaxDepth /\ dsw = ds
          BY <3>2, <2>1, <2>4, <2>5
        <4>2. ASSUME NEW chosen, bsw = Overlaid(branch, r.branches, chosen),
                     NEW b \in RowsOf(bsw)
              PROVE  bsw[b].document \in RowsOf(ds)
          <5>1. /\ b \in DOMAIN branch /\ bsw[b] # None
                /\ bsw[b] = IF b \in RowsOf(r.branches) \cap chosen THEN r.branches[b] ELSE branch[b]
            BY <4>2 DEF Overlaid, RowsOf
          <5>2. CASE b \in RowsOf(r.branches) \cap chosen
            BY <5>1, <5>2, <2>10
          <5>3. CASE b \notin RowsOf(r.branches) \cap chosen
            <6>1. b \in RowsOf(branch) /\ bsw[b] = branch[b]
              BY <5>1, <5>3 DEF RowsOf
            <6> QED BY <6>1, <2>8, <1>2
          <5> QED BY <5>2, <5>3
        <4>3. \E chosen : bsw = Overlaid(branch, r.branches, chosen)
          BY <3>2, <2>5
        <4> QED BY <4>1, <4>2, <4>3
      <3> QED BY <3>1, <3>2
    <2>12. ASSUME NEW b \in RowsOf(bsw), NEW e \in RowsOf(bsw), b # e,
                  bsw[b].document = bsw[e].document
           PROVE  bsw[b].name # bsw[e].name /\ ~(bsw[b].default /\ bsw[e].default)
      <3>1. CASE bsw = branch
        BY <3>1, <2>8, <2>12, <1>2, TwoBranches DEF TablesFit, Whole
      <3>2. CASE bsw = Overlaid(branch, r.branches,
                                {k \in RowsOf(r.branches) : ~r.branches[k].default})
        BY <3>2, <2>12, BranchesInOrder DEF Whole
      <3>3. CASE bsw = bs /\ w = MaxDepth + 2
        <4>1. dsw = ds
          BY <3>3, <2>1, <2>4
        <4> QED BY <3>3, <4>1, <2>11, <2>12, <1>2, TwoBranches DEF Whole
      <3> QED BY <3>1, <3>2, <3>3, <2>5
    <2>13. Constraints(fsw, dsw, bsw)
      BY <2>3, <2>6, <2>7, <2>11, <2>12 DEF Constraints
    <2> QED BY <2>13 DEF fsw, dsw, bsw
  <1> QED BY <1>1, <1>3 DEF NewRowsFit

-----------------------------------------------------------------------------
(* The library is whole                                                    *)

\* A request of the library ends only where it saves.
LEMMA EndsBySaving ==
    ASSUME LibraryInvariant, [Next]_vars, NEW c \in Clients,
           call[c].kind \in LibraryKinds, call'[c] = Idle
    PROVE  SaveLibrary(c)
  <1>0. Formed /\ TablesFit
    BY DEF LibraryInvariant
  <1>1. call'[c] # call[c] /\ "none" \notin LibraryKinds
    BY DEF LibraryKinds, Idle
  <1>2. ASSUME NEW kinds, kinds \cap LibraryKinds = {} PROVE ~Moves(kinds)
    <2> SUFFICES ASSUME Moves(kinds) PROVE FALSE
      OBVIOUS
    <2>1. PICK d \in Clients : /\ call[d].kind \in kinds \cup {"none"}
                               /\ \A e \in Clients \ {d} : call'[e] = call[e]
      BY DEF Moves
    <2>2. c = d
      BY <1>1, <2>1
    <2> QED BY <1>1, <1>2, <2>1, <2>2
  <1>3. CASE WorkspaceEvent \/ UNCHANGED vars
    <2>1. UNCHANGED call
      BY <1>3, Zenon
      DEF WorkspaceEvent, SwitchAccount, ChangeRole, Archive, Publish, Tick, Event, vars
    <2> QED BY <1>1, <2>1
  <1>4. ~ShareNext /\ ~ChatNext
    BY <1>0, <1>2, ShareStepsMove, ChatStepsMove, KindsApart
  <1>5. ~TokenNext
    <2>1. TokenKinds \cap LibraryKinds = {}
      BY DEF TokenKinds, LibraryKinds
    <2>2. TokenNext => Moves(TokenKinds) \/ UNCHANGED call
      BY <1>0, TokenStepsMove
    <2> QED BY <1>1, <1>2, <2>1, <2>2
  <1>6. ~RotationNext
    <2>1. {"rotate"} \cap LibraryKinds = {}
      BY DEF LibraryKinds
    <2> QED BY <1>0, <1>2, <2>1, RotationStepsMove
  <1>7. CASE LibraryNext
    <2>1. PICK d \in Clients : (call[d] = Idle /\ PlansWell(d)) \/ SaveLibrary(d)
      BY <1>0, <1>7, LibraryPlansWell
    <2>2. CASE call[d] = Idle /\ PlansWell(d)
      <3>1. PICK r : Enter(d, r)
        BY <2>2 DEF PlansWell
      <3>2. \A e \in Clients \ {d} : call'[e] = call[e]
        BY <1>0, <3>1, Entered
      <3>3. c = d
        BY <1>1, <3>2
      <3>4. call[d].kind = "none"
        BY <2>2 DEF Idle
      <3> QED BY <3>3, <3>4, <1>1
    <2>3. CASE SaveLibrary(d)
      <3>1. Leave(d)
        BY <2>3 DEF SaveLibrary
      <3>2. \A e \in Clients \ {d} : call'[e] = call[e]
        BY <1>0, <3>1, Left
      <3>3. c = d
        BY <1>1, <3>2
      <3> QED BY <2>3, <3>3
    <2> QED BY <2>1, <2>2, <2>3
  <1> QED BY <1>3, <1>4, <1>5, <1>6, <1>7 DEF Next

LEMMA WhatIsAllowedIsSaved ==
    ASSUME LibraryInvariant, NEW c \in Clients, SaveLibrary(c),
           NEW r, r = call[c],
           NEW fs, fs = folders \cup r.newFolders,
           NEW ds, ds = Overlaid(documents, r.documents, Documents),
           NEW bs, bs = Overlaid(branch, r.branches, BranchIds),
           StillAllowed(r), Whole(fs, ds, bs),
           AsLoaded(documents, r.documents), AsLoaded(branch, r.branches),
           r.newFolders \cap folders = {}
    PROVE  folders' = fs /\ documents' = ds /\ branch' = bs
  <1>1. r \in LibraryCall /\ PlanFits(r.documents, r.branches) /\ TablesFit
    BY DEF SaveLibrary, At, LibraryInvariant, LibraryRequest
  <1>2. NewRowsFit(r)
    BY <1>1, OrderNeverRefuses
  <1>3. /\ folders' = FoldersAfter(r, MaxDepth + 2)
        /\ documents' = DocumentsAfter(r, MaxDepth + 2)
        /\ branch' = BranchesAfter(r, MaxDepth + 2)
    BY <1>2 DEF SaveLibrary
  <1> QED BY <1>1, <1>3, AllIsSaved

\* Whatever two requests decide at once: one folder and one document at a path,
\* every folder below its parent and every document where its path leads, one
\* default branch of each document, which is not archived; and a request is never
\* refused for the order of its statements (CreateDocumentWithLocation,
\* UpdateDocument, UpdateBranch, ArchiveBranch, saveDocumentWorkflowLocked).
THEOREM LibraryStaysWhole == Spec => LibraryIsWhole
  <1> DEFINE Ends(c) ==
               LET r == call[c]
                   fs == folders \cup r.newFolders
                   ds == Overlaid(documents, r.documents, Documents)
                   bs == Overlaid(branch, r.branches, BranchIds)
               IN (/\ StillAllowed(r) /\ Whole(fs, ds, bs)
                   /\ AsLoaded(documents, r.documents) /\ AsLoaded(branch, r.branches)
                   /\ r.newFolders \cap folders = {})
                  => <<folders, documents, branch>>' = <<fs, ds, bs>>
             Body == /\ Whole(folders, documents, branch)'
                     /\ \A c \in Clients :
                          (call[c].kind \in LibraryKinds /\ call'[c] = Idle) => Ends(c)
  <1>1. LibraryInvariant /\ [Next]_vars => Body
    <2> SUFFICES ASSUME LibraryInvariant, [Next]_vars PROVE Body
      OBVIOUS
    <2>1. LibraryInvariant'
      BY LibraryInvariantHoldsOn
    <2>2. Whole(folders, documents, branch)'
      BY <2>1 DEF LibraryInvariant, TablesFit
    <2>3. ASSUME NEW c \in Clients, call[c].kind \in LibraryKinds, call'[c] = Idle
          PROVE  Ends(c)
      <3>1. SaveLibrary(c)
        BY <2>3, EndsBySaving
      <3>2. PICK r : r = call[c]
        OBVIOUS
      <3>3. PICK fs, ds, bs : /\ fs = folders \cup r.newFolders
                              /\ ds = Overlaid(documents, r.documents, Documents)
                              /\ bs = Overlaid(branch, r.branches, BranchIds)
        OBVIOUS
      <3>4. (/\ StillAllowed(r) /\ Whole(fs, ds, bs)
             /\ AsLoaded(documents, r.documents) /\ AsLoaded(branch, r.branches)
             /\ r.newFolders \cap folders = {})
              => folders' = fs /\ documents' = ds /\ branch' = bs
        BY <3>1, <3>2, <3>3, WhatIsAllowedIsSaved
      <3> QED BY <3>2, <3>3, <3>4
    <2> QED BY <2>2, <2>3
  <1>2. LibraryInvariant /\ [Next]_vars => [Body]_<<call, libraryVars>>
    BY <1>1
  <1>3. LibraryIsWhole <=> [][Body]_<<call, libraryVars>>
    BY DEF LibraryIsWhole
  <1> HIDE DEF Body
  <1> QED BY <1>2, <1>3, LibraryInvariantHolds, PTL DEF Spec

-----------------------------------------------------------------------------
(* Every row and every request has its type                                *)

ShareRevelation ==
    [kind : {"revealShare"}, step : {"ready", "revealed"}, actor : Users, share : Shares]
ShareRevocation ==
    [kind : {"revokeShare"}, step : {"ready"}, actor : Users, share : Shares,
     row : ShareRow]
ShareReading ==
    [kind : AnonymousKinds, step : ReaderSteps, share : Shares,
     want : {0} \cup Numbers, proof : Proof \cup {None}, seen : Seen,
     since : 0 .. MaxVersions, shown : SUBSET Numbers]
TokenListing ==
    [kind : {"listTokens", "revokeToken"}, step : {"ready"}, actor : Users,
     loaded : TokenTable, token : Tokens \cup {None}]
ChatCreation ==
    [kind : {"createChat"}, step : {"ready"}, actor : Users, session : Sessions,
     target : Targets, basis : Basis]
MessageCall ==
    [kind : {"chat"},
     step : {"reserving", "rebuilding", "asking", "finishing", "saving", "releasing"},
     actor : Users, session : Sessions, basis : Basis, token : {0} \cup Stamps,
     asked : {0} \cup Stamps, knew : SUBSET Stamps, mode : Modes,
     heard : 0 .. MaxFragments, ended : {"no", "stop", "length"},
     answered : BOOLEAN, checked : {0} \cup 1 .. MaxTime + 1]
Configuration ==
    [kind : {"configure"}, step : {"ready"}, actor : Users, owner : Owners,
     part : Parts, enabled : BOOLEAN, loaded : Setting \cup {None}]
ProviderTest ==
    [kind : {"testProvider"}, step : {"asking", "auditing", "audited"}, actor : Users,
     owner : Owners]

Requests ==
    {Idle} \cup ShareCall \cup TokenCall \cup RotationCall \cup ChatCall \cup LibraryCall

LEMMA RequestsByKind ==
    Requests = {Idle}
      \cup ShareCreation \cup ShareRevelation \cup ShareRevocation \cup ShareReading
      \cup TokenCreation \cup TokenListing \cup TokenRevelation \cup ToolCall
      \cup RotationCall
      \cup ChatCreation \cup MessageCall \cup Configuration \cup ProviderTest
      \cup LibraryCall
  <1>1. ShareCall = ShareCreation \cup ShareRevelation \cup ShareRevocation \cup ShareReading
    BY Zenon DEF ShareCall, ShareCreation, ShareRevelation, ShareRevocation, ShareReading,
       AnonymousKinds, ReaderSteps
  <1>2. TokenCall = TokenCreation \cup TokenListing \cup TokenRevelation \cup ToolCall
    BY Zenon DEF TokenCall, TokenCreation, TokenListing, TokenRevelation, ToolCall, TokenTable
  <1>3. ChatCall = ChatCreation \cup MessageCall \cup Configuration \cup ProviderTest
    BY Zenon DEF ChatCall, ChatCreation, MessageCall, Configuration, ProviderTest
  <1> QED BY <1>1, <1>2, <1>3, Zenon DEF Requests

\* A kind names the type.
LEMMA KindOfRequest ==
    ASSUME NEW r \in Requests
    PROVE  /\ r.kind = "createShare" => r \in ShareCreation
           /\ r.kind = "revealShare" => r \in ShareRevelation
           /\ r.kind = "revokeShare" => r \in ShareRevocation
           /\ r.kind \in AnonymousKinds => r \in ShareReading
           /\ r.kind = "createToken" => r \in TokenCreation
           /\ r.kind \in {"listTokens", "revokeToken"} => r \in TokenListing
           /\ r.kind = "revealToken" => r \in TokenRevelation
           /\ r.kind = "mcp" => r \in ToolCall
           /\ r.kind = "rotate" => r \in RotationCall
           /\ r.kind = "createChat" => r \in ChatCreation
           /\ r.kind = "chat" => r \in MessageCall
           /\ r.kind = "configure" => r \in Configuration
           /\ r.kind = "testProvider" => r \in ProviderTest
           /\ {"kind", "step"} \subseteq DOMAIN r
  <1>1. /\ Idle.kind = "none"
        /\ \A q \in ShareCreation : q.kind = "createShare"
        /\ \A q \in ShareRevelation : q.kind = "revealShare"
        /\ \A q \in ShareRevocation : q.kind = "revokeShare"
        /\ \A q \in ShareReading : q.kind \in AnonymousKinds
        /\ \A q \in TokenCreation : q.kind = "createToken"
        /\ \A q \in TokenListing : q.kind \in {"listTokens", "revokeToken"}
        /\ \A q \in TokenRevelation : q.kind = "revealToken"
        /\ \A q \in ToolCall : q.kind = "mcp"
        /\ \A q \in RotationCall : q.kind = "rotate"
        /\ \A q \in ChatCreation : q.kind = "createChat"
        /\ \A q \in MessageCall : q.kind = "chat"
        /\ \A q \in Configuration : q.kind = "configure"
        /\ \A q \in ProviderTest : q.kind = "testProvider"
        /\ \A q \in LibraryCall : q.kind \in LibraryKinds
    BY DEF Idle, ShareCreation, ShareRevelation, ShareRevocation, ShareReading,
       TokenCreation, TokenListing, TokenRevelation, ToolCall, RotationCall, ChatCreation,
       MessageCall, Configuration, ProviderTest, LibraryCall
  <1>2. {"kind", "step"} \subseteq DOMAIN r
    <2>1. /\ {"kind", "step"} \subseteq DOMAIN Idle
          /\ \A q \in ShareCreation \cup ShareRevelation \cup ShareRevocation \cup ShareReading :
                {"kind", "step"} \subseteq DOMAIN q
      BY DEF Idle, ShareCreation, ShareRevelation, ShareRevocation, ShareReading
    <2>2. \A q \in TokenCreation \cup TokenListing \cup TokenRevelation \cup ToolCall
                     \cup RotationCall :
             {"kind", "step"} \subseteq DOMAIN q
      BY DEF TokenCreation, TokenListing, TokenRevelation, ToolCall, RotationCall
    <2>3. \A q \in ChatCreation \cup MessageCall \cup Configuration \cup ProviderTest
                     \cup LibraryCall :
             {"kind", "step"} \subseteq DOMAIN q
      BY DEF ChatCreation, MessageCall, Configuration, ProviderTest, LibraryCall
    <2> QED BY <2>1, <2>2, <2>3, RequestsByKind
  <1>3. AnonymousKinds = {"metadata", "versions", "content", "download", "unlock"}
    BY DEF AnonymousKinds, ReadKinds
  <1>4. LibraryKinds = {"createFolder", "createDocument", "updateDocument", "archiveDocument",
                        "createBranch", "updateBranch", "archiveBranch"}
    BY DEF LibraryKinds
  <1>5. \/ r = Idle
        \/ r \in ShareCreation \/ r \in ShareRevelation \/ r \in ShareRevocation
        \/ r \in ShareReading
        \/ r \in TokenCreation \/ r \in TokenListing \/ r \in TokenRevelation \/ r \in ToolCall
        \/ r \in RotationCall
        \/ r \in ChatCreation \/ r \in MessageCall \/ r \in Configuration
        \/ r \in ProviderTest \/ r \in LibraryCall
    BY RequestsByKind
  <1> QED BY <1>1, <1>2, <1>3, <1>4, <1>5

\* A revision that a request will write is within its bound, and a request that asks
\* has a question.
RequestWell(r) ==
    /\ r \in Requests
    /\ r.kind = "configure" /\ r.loaded # None => r.loaded.revision < MaxRevision
    /\ r.kind = "chat" /\ r.step \in AskedSteps => r.asked # 0

TypesFit ==
    /\ WorkspaceTypeOK /\ ShareTypeOK /\ TokenTypeOK /\ ChatTypeOK /\ LibraryTypeOK
    /\ \A c \in Clients : RequestWell(call[c])

\* What is known of the requests besides their types.
RequestsHold == ShareInvariant /\ TokenInvariant /\ ChatInvariant /\ LibraryInvariant

\* What a step does to a client's request.
Becomes(c) ==
    /\ Formed' /\ UNCHANGED workload
    /\ \A d \in Clients \ {c} : call'[d] = call[d]
    /\ RequestWell(call'[c])

LEMMA IdleIsWell == RequestWell(Idle)
  BY DEF RequestWell, Requests, Idle

LEMMA BecomesIdle ==
    ASSUME Formed, NEW c \in Clients, Leave(c), UNCHANGED workload
    PROVE  Becomes(c)
  BY Left, IdleIsWell DEF Becomes

LEMMA BecomesRequest ==
    ASSUME Formed, NEW c \in Clients, UNCHANGED workload,
           NEW r, RequestWell(r), Enter(c, r)
    PROVE  Becomes(c)
  <1>1. {"kind", "step"} \subseteq DOMAIN r
    BY KindOfRequest DEF RequestWell
  <1> QED BY <1>1, Entered, EnteredIsFormed DEF Becomes

LEMMA BecomesFurther ==
    ASSUME Formed, NEW c \in Clients, UNCHANGED workload, NEW s, Go(c, s),
           RequestWell([call[c] EXCEPT !.step = s])
    PROVE  Becomes(c)
  BY Gone DEF Becomes

LEMMA RowsKeepTypes ==
    ASSUME WorkspaceTypeOK, UNCHANGED <<rows, workload>>, Formed'
    PROVE  WorkspaceTypeOK'
  BY Zenon DEF WorkspaceTypeOK, rows, Formed

LEMMA EventsKeepTypes ==
    ASSUME WorkspaceTypeOK, WorkspaceEvent
    PROVE  WorkspaceTypeOK'
  <1>1. events + 1 \in 0 .. MaxEvents \/ ~(events < MaxEvents)
    BY WorkspaceAssumption DEF WorkspaceTypeOK
  <1>2. now + 1 \in Times \/ ~(now < MaxTime)
    BY WorkspaceAssumption DEF WorkspaceTypeOK, Times
  <1>3. \A b \in Branches : published[b] + 1 \in 0 .. MaxVersions \/ ~(published[b] < MaxVersions)
    BY WorkspaceAssumption DEF WorkspaceTypeOK
  <1>4. NewRoles \subseteq 0 .. Admin
    BY WorkspaceAssumption DEF Admin
  <1> QED BY <1>1, <1>2, <1>3, <1>4
      DEF WorkspaceTypeOK, WorkspaceEvent, SwitchAccount, ChangeRole, Archive, Publish, Tick,
          Event

LEMMA AnswersAreNumbers ==
    ASSUME NEW r, r.seen.row \in ShareRow, r.seen.count \in 0 .. MaxVersions
    PROVE  Answer(r) \subseteq Numbers
  <1>1. r.seen.row.pin \in Nat /\ 1 .. r.seen.count \subseteq Numbers
    BY WorkspaceAssumption DEF ShareRow, Numbers
  <1>2. PublishedSnapshotVersions(r.seen) \subseteq Numbers
    BY <1>1 DEF PublishedSnapshotVersions
  <1> QED BY <1>2 DEF Answer, AllowedSnapshotVersion

\* What a reader has seen when it is at a step.
LEMMA ReadersSee ==
    ASSUME TypesFit, ShareInvariant, NEW c \in Clients, call[c].kind \in AnonymousKinds
    PROVE  /\ call[c] \in ShareReading
           /\ call[c].step \in HasRow => call[c].seen.row \in ShareRow
           /\ DOMAIN call[c].seen = {"row", "closed", "count"} /\ call[c].seen \in Seen
  <1>1. call[c] \in ShareReading
    BY KindOfRequest DEF TypesFit, RequestWell
  <1>2. ReaderRequest(call[c])
    BY DEF ShareInvariant, ShareRequest
  <1> QED BY <1>1, <1>2 DEF ReaderRequest, ShareReading

LEMMA ShareBeginningsTyped ==
    ASSUME TypesFit, ShareInvariant, NEW c \in Clients,
           BeginsCreateShare(c) \/ BeginsRevealShare(c) \/ BeginsRevokeShare(c)
             \/ BeginsVisit(c)
    PROVE  Becomes(c) /\ ShareTypeOK'
  <1>0. /\ Formed /\ now \in Times /\ share \in [Shares -> ShareRow \cup {None}]
        /\ proofs \subseteq Proof /\ published \in [Branches -> 0 .. MaxVersions]
    BY DEF ShareInvariant, TypesFit, WorkspaceTypeOK, ShareTypeOK
  <1>1. UNCHANGED <<workload, shareVars>>
    BY Zenon DEF BeginsCreateShare, BeginsRevealShare, BeginsRevokeShare, BeginsVisit,
       CreateDocumentShare, RevealDocumentShare, RevokeDocumentShare, Visit
  <1>2. ShareTypeOK'
    BY <1>0, <1>1 DEF ShareTypeOK, shareVars
  <1>3. CASE BeginsCreateShare(c)
    <2>1. PICK u \in Users, s \in Shares, b \in Branches, scope \in Scopes,
            pin \in {0} \cup Numbers, protected \in Protections, expires \in Expiries :
            CreateDocumentShare(c, u, s, b, scope, pin, protected, expires)
      BY <1>3, Zenon DEF BeginsCreateShare
    <2>2. PICK row : row = Creation(b, scope, pin, protected, expires)
      OBVIOUS
    <2>3. PICK r : r = [kind |-> "createShare", step |-> IF protected THEN "hashing" ELSE "ready",
                        actor |-> u, share |-> s, row |-> row]
      OBVIOUS
    <2>4. Enter(c, r)
      BY <2>1, <2>2, <2>3 DEF CreateDocumentShare
    <2>5. row \in ShareRow
      <3>1. expires \in 1 .. Never
        BY <1>0, LifeAssumption, WorkspaceAssumption DEF Expiries, Never, Times
      <3>2. protected \in BOOLEAN
        BY DEF Protections
      <3>3. scope \in {"latest", "fixed", "all"}
        BY ScopesAssumption
      <3> QED BY <2>2, <3>1, <3>2, <3>3 DEF Creation, ShareRow
    <2>6. r \in ShareCreation /\ r.kind = "createShare"
      BY <2>3, <2>5 DEF ShareCreation
    <2>7. RequestWell(r)
      BY <2>6, RequestsByKind DEF RequestWell
    <2> QED BY <1>0, <1>1, <1>2, <2>4, <2>7, BecomesRequest
  <1>4. CASE BeginsRevealShare(c)
    <2>1. PICK u \in Users, s \in Shares : RevealDocumentShare(c, u, s)
      BY <1>4 DEF BeginsRevealShare
    <2>2. PICK r : r = [kind |-> "revealShare", step |-> "ready", actor |-> u, share |-> s]
      OBVIOUS
    <2>3. Enter(c, r) /\ r \in ShareRevelation /\ r.kind = "revealShare"
      BY <2>1, <2>2 DEF RevealDocumentShare, ShareRevelation
    <2>4. RequestWell(r)
      BY <2>3, RequestsByKind DEF RequestWell
    <2> QED BY <1>0, <1>1, <1>2, <2>3, <2>4, BecomesRequest
  <1>5. CASE BeginsRevokeShare(c)
    <2>1. PICK u \in Users, s \in Shares : RevokeDocumentShare(c, u, s)
      BY <1>5 DEF BeginsRevokeShare
    <2>2. PICK r : r = [kind |-> "revokeShare", step |-> "ready", actor |-> u, share |-> s,
                        row |-> share[s]]
      OBVIOUS
    <2>3. Enter(c, r) /\ share[s] \in ShareRow
      BY <1>0, <2>1, <2>2 DEF RevokeDocumentShare
    <2>4. r \in ShareRevocation /\ r.kind = "revokeShare"
      BY <2>2, <2>3 DEF ShareRevocation
    <2>5. RequestWell(r)
      BY <2>4, RequestsByKind DEF RequestWell
    <2> QED BY <1>0, <1>1, <1>2, <2>3, <2>5, BecomesRequest
  <1>6. CASE BeginsVisit(c)
    <2>1. PICK kind \in AnonymousKinds, s \in Shares, want \in {0} \cup Numbers,
               proof \in proofs \cup {None} : Visit(c, kind, s, want, proof)
      BY <1>6 DEF BeginsVisit
    <2>2. PICK r : r = [kind |-> kind, step |-> "share", share |-> s, want |-> want,
                   proof |-> proof, seen |-> Nothing,
                   since |-> published[share[s].branch], shown |-> {}]
      OBVIOUS
    <2>3. Enter(c, r) /\ share[s] \in ShareRow
      BY <1>0, <2>1, <2>2 DEF Visit
    <2>4. published[share[s].branch] \in 0 .. MaxVersions
      BY <1>0, <2>3 DEF ShareRow
    <2>5. Nothing \in Seen /\ "share" \in ReaderSteps
      BY WorkspaceAssumption DEF Nothing, Seen, ReaderSteps
    <2>6. r \in ShareReading /\ r.kind = kind
      BY <1>0, <2>2, <2>4, <2>5 DEF ShareReading
    <2>7. kind \notin {"configure", "chat"}
      BY DEF AnonymousKinds, ReadKinds
    <2>8. RequestWell(r)
      BY <2>6, <2>7, RequestsByKind DEF RequestWell
    <2> QED BY <1>0, <1>1, <1>2, <2>3, <2>8, BecomesRequest
  <1> QED BY <1>3, <1>4, <1>5, <1>6

\* A further step of a request on shares.
LEMMA ShareGoesOnTyped ==
    ASSUME TypesFit, Formed, NEW c \in Clients, UNCHANGED workload, NEW s, Go(c, s),
           \/ call[c].kind = "createShare" /\ s = "ready"
           \/ call[c].kind = "revealShare" /\ s = "revealed"
           \/ call[c].kind \in AnonymousKinds /\ s \in ReaderSteps
    PROVE  Becomes(c)
  <1>1. PICK q : q = call[c]
    OBVIOUS
  <1>2. q \in Requests
    BY <1>1 DEF TypesFit, RequestWell
  <1>3. PICK r : r = [q EXCEPT !.step = s]
    OBVIOUS
  <1>4. \/ r \in ShareCreation /\ r.kind = "createShare"
        \/ r \in ShareRevelation /\ r.kind = "revealShare"
        \/ r \in ShareReading /\ r.kind \in AnonymousKinds
    <2>1. CASE q.kind = "createShare" /\ s = "ready"
      BY <2>1, <1>2, <1>3, KindOfRequest DEF ShareCreation
    <2>2. CASE q.kind = "revealShare" /\ s = "revealed"
      BY <2>2, <1>2, <1>3, KindOfRequest DEF ShareRevelation
    <2>3. CASE q.kind \in AnonymousKinds /\ s \in ReaderSteps
      BY <2>3, <1>2, <1>3, KindOfRequest DEF ShareReading
    <2> QED BY <1>1, <2>1, <2>2, <2>3
  <1>5. r.kind \notin {"configure", "chat"}
    BY <1>4 DEF AnonymousKinds, ReadKinds
  <1>6. RequestWell(r)
    BY <1>4, <1>5, RequestsByKind DEF RequestWell
  <1> QED BY <1>1, <1>3, <1>6, BecomesFurther

\* A reader's next row, or the number of versions.
LEMMA LoadTyped ==
    ASSUME TypesFit, RequestsHold, NEW c \in Clients, LoadPublicDocumentShareSnapshot(c)
    PROVE  Becomes(c)
  <1>1. /\ Formed /\ UNCHANGED workload /\ share \in ShareTable
        /\ published \in [Branches -> 0 .. MaxVersions]
        /\ call[c].kind \in AnonymousKinds /\ call[c].step \in DOMAIN ReadOrder
    BY DEF TypesFit, WorkspaceTypeOK, RequestsHold, ShareInvariant, ShareRows,
       LoadPublicDocumentShareSnapshot, AnonymousKinds
  <1>2. PICK q : q = call[c]
    OBVIOUS
  <1>3. /\ q \in ShareReading /\ q.seen \in Seen /\ q.share \in Shares
        /\ q.step \in HasRow => q.seen.row.branch \in Branches
        /\ q.step \in HasRow => q.seen.row \in ShareRow
        /\ DOMAIN q.seen = {"row", "closed", "count"}
    BY <1>1, <1>2, ReadersSee DEF RequestsHold, ShareReading, ShareRow
  <1> DEFINE place == IF q.step = "branch" THEN q.seen.row.branch ELSE q.step
             seen == CASE q.step = "share" -> [q.seen EXCEPT !.row = share[q.share]]
                       [] q.step = "versions" ->
                            [q.seen EXCEPT !.count = published[q.seen.row.branch]]
                       [] OTHER -> [q.seen EXCEPT !.closed = @ \cup ({place} \cap archived)]
             new == [q EXCEPT !.step = ReadOrder[q.step], !.seen = seen]
  <1>4. Enter(c, new)
    BY <1>2 DEF LoadPublicDocumentShareSnapshot
  <1>5. PICK r : r = new
    OBVIOUS
  <1>6. seen \in Seen
    <2>1. CASE q.step = "share"
      BY <1>1, <1>3, <2>1 DEF Seen, ShareTable
    <2>2. CASE q.step = "versions"
      <3>1. published[q.seen.row.branch] \in 0 .. MaxVersions
        BY <1>1, <1>3, <2>2 DEF HasRow, ReaderSteps
      <3> QED BY <1>3, <2>2, <3>1 DEF Seen
    <2>3. CASE q.step \notin {"share", "versions"}
      <3>1. {place} \cap archived \subseteq Places
        BY DEF TypesFit, WorkspaceTypeOK
      <3> HIDE DEF place
      <3> QED BY <1>3, <2>3, <3>1 DEF Seen
    <2> QED BY <2>1, <2>2, <2>3
  <1>7. ReadOrder[q.step] \in ReaderSteps
    BY <1>1, <1>2 DEF ReadOrder, ReaderSteps
  <1> HIDE DEF seen, place
  <1>8. r \in ShareReading /\ r.kind = q.kind
    BY <1>3, <1>5, <1>6, <1>7 DEF ShareReading
  <1>9. r.kind \notin {"configure", "chat"}
    BY <1>1, <1>2, <1>8 DEF AnonymousKinds, ReadKinds
  <1>10. RequestWell(r)
    BY <1>8, <1>9, RequestsByKind DEF RequestWell
  <1> QED BY <1>1, <1>4, <1>5, <1>10, BecomesRequest

LEMMA AdmissionTyped ==
    ASSUME TypesFit, RequestsHold, NEW c \in Clients, UNCHANGED workload,
           At(c, ReadKinds, "loaded"),
           Enter(c, [call[c] EXCEPT !.step = "admitted", !.shown = Answer(call[c])])
    PROVE  Becomes(c)
  <1>1. Formed /\ call[c].kind \in AnonymousKinds /\ call[c].step \in HasRow
    BY DEF RequestsHold, ShareInvariant, At, AnonymousKinds, HasRow, ReaderSteps
  <1>2. PICK q : q = call[c]
    OBVIOUS
  <1>3. q \in ShareReading /\ q.seen.row \in ShareRow /\ q.seen.count \in 0 .. MaxVersions
    BY <1>1, <1>2, ReadersSee DEF RequestsHold, Seen
  <1>4. Answer(q) \subseteq Numbers
    BY <1>3, AnswersAreNumbers
  <1>5. PICK r : r = [q EXCEPT !.step = "admitted", !.shown = Answer(q)]
    OBVIOUS
  <1>6. r \in ShareReading /\ r.kind = q.kind
    BY <1>3, <1>4, <1>5 DEF ShareReading, ReaderSteps
  <1>7. r.kind \notin {"configure", "chat"}
    BY <1>1, <1>2, <1>6 DEF AnonymousKinds, ReadKinds
  <1>8. RequestWell(r)
    BY <1>6, <1>7, RequestsByKind DEF RequestWell
  <1> QED BY <1>1, <1>2, <1>5, <1>8, BecomesRequest

LEMMA SignedProofTyped ==
    ASSUME TypesFit, RequestsHold, NEW c \in Clients, SignDocumentShareUnlockProof(c)
    PROVE  proofs' \subseteq Proof
  <1>1. /\ call[c].kind \in AnonymousKinds /\ call[c].step \in HasRow
        /\ now \in Nat /\ proofs \subseteq Proof
    BY WorkspaceAssumption
    DEF SignDocumentShareUnlockProof, At, AnonymousKinds, HasRow, ReaderSteps, TypesFit,
        WorkspaceTypeOK, Times, ShareTypeOK
  <1>2. PICK row : row = call[c].seen.row
    OBVIOUS
  <1>3. row \in ShareRow /\ call[c].share \in Shares
    BY <1>1, <1>2, ReadersSee DEF RequestsHold, ShareReading
  <1>4. row.expires \in Nat /\ row.expires <= Never /\ Never \in Nat
    BY <1>3, WorkspaceAssumption, LifeAssumption DEF ShareRow, Never
  <1>5. ProofExpiry(row) > now => ProofExpiry(row) \in 1 .. Never
    BY <1>1, <1>4, LifeAssumption DEF ProofExpiry
  <1>6. \/ proofs' = proofs
        \/ /\ ProofExpiry(row) > now
           /\ proofs' = proofs \cup {[share |-> call[c].share, until |-> ProofExpiry(row)]}
    BY <1>2 DEF SignDocumentShareUnlockProof
  <1> QED BY <1>1, <1>3, <1>5, <1>6 DEF Proof

LEMMA ShareStepsTyped ==
    ASSUME TypesFit, RequestsHold, ShareNext
    PROVE  (\E c \in Clients : Becomes(c)) /\ UNCHANGED rows /\ proofs' \subseteq Proof
  <1>0. Formed /\ ShareInvariant /\ proofs \subseteq Proof
    BY DEF RequestsHold, ShareInvariant, TypesFit, ShareTypeOK
  <1>1. PICK c \in Clients :
              \/ BeginsCreateShare(c) \/ BeginsRevealShare(c) \/ BeginsRevokeShare(c)
              \/ BeginsVisit(c)
              \/ SharePasswordHashed(c) \/ SaveNewShare(c)
              \/ CommitReveal(c) \/ ShowSecret(c) \/ CommitRevoke(c)
              \/ LoadPublicDocumentShareSnapshot(c) \/ AuthorizePublicShare(c)
              \/ RecordPublicDocumentShareAccess(c) \/ SendAnswer(c)
              \/ UnlockPublicDocumentShare(c) \/ SignDocumentShareUnlockProof(c)
              \/ WrongPassword(c)
    BY ShareSteps
  <1>2. CASE BeginsCreateShare(c) \/ BeginsRevealShare(c) \/ BeginsRevokeShare(c)
               \/ BeginsVisit(c)
    <2>1. Becomes(c) /\ proofs' \subseteq Proof
      BY <1>0, <1>2, ShareBeginningsTyped DEF ShareTypeOK
    <2>2. UNCHANGED rows
      BY <1>2, Zenon DEF BeginsCreateShare, BeginsRevealShare, BeginsRevokeShare, BeginsVisit,
         CreateDocumentShare, RevealDocumentShare, RevokeDocumentShare, Visit
    <2> QED BY <2>1, <2>2
  <1>3. CASE SaveNewShare(c) \/ CommitRevoke(c)
    <2>1. UNCHANGED <<rows, workload, proofs>> /\ Leave(c)
      BY <1>3, Zenon DEF SaveNewShare, CommitRevoke
    <2> QED BY <1>0, <2>1, BecomesIdle
  <1>4. CASE ShowSecret(c) \/ SendAnswer(c) \/ WrongPassword(c)
    <2>1. UNCHANGED <<rows, workload, shareVars>> /\ Leave(c)
      BY <1>4, Zenon DEF ShowSecret, SendAnswer, WrongPassword
    <2> QED BY <1>0, <2>1, BecomesIdle DEF shareVars
  <1>5. CASE SignDocumentShareUnlockProof(c)
    <2>1. UNCHANGED <<rows, workload>> /\ Leave(c)
      BY <1>5, Zenon DEF SignDocumentShareUnlockProof
    <2>2. proofs' \subseteq Proof
      BY <1>5, SignedProofTyped
    <2> QED BY <1>0, <2>1, <2>2, BecomesIdle
  <1>6. CASE SharePasswordHashed(c) \/ CommitReveal(c) \/ RecordPublicDocumentShareAccess(c)
               \/ UnlockPublicDocumentShare(c)
    <2>1. UNCHANGED <<rows, workload, shareVars>>
      BY <1>6, Zenon DEF SharePasswordHashed, CommitReveal, RecordPublicDocumentShareAccess,
         UnlockPublicDocumentShare
    <2>2. \/ Leave(c)
          \/ call[c].kind = "createShare" /\ Go(c, "ready")
          \/ call[c].kind = "revealShare" /\ Go(c, "revealed")
          \/ call[c].kind \in AnonymousKinds /\ Go(c, "answered")
          \/ call[c].kind \in AnonymousKinds /\ Go(c, "verifying")
      BY <1>6, Zenon DEF SharePasswordHashed, CommitReveal, RecordPublicDocumentShareAccess,
         UnlockPublicDocumentShare, At, AnonymousKinds
    <2>3. "answered" \in ReaderSteps /\ "verifying" \in ReaderSteps
      BY DEF ReaderSteps
    <2>4. Becomes(c)
      BY <1>0, <2>1, <2>2, <2>3, BecomesIdle, ShareGoesOnTyped
    <2> QED BY <1>0, <2>1, <2>4 DEF shareVars
  <1>7. CASE LoadPublicDocumentShareSnapshot(c)
    <2>1. UNCHANGED <<rows, workload, shareVars>>
      BY <1>7, Zenon DEF LoadPublicDocumentShareSnapshot
    <2> QED BY <1>0, <1>7, <2>1, LoadTyped DEF shareVars
  <1>8. CASE AuthorizePublicShare(c)
    <2>1. UNCHANGED <<rows, workload, shareVars>>
      BY <1>8, Zenon DEF AuthorizePublicShare
    <2>2. Becomes(c)
      BY <1>0, <1>8, <2>1, AdmissionTyped, BecomesIdle DEF AuthorizePublicShare
    <2> QED BY <1>0, <2>1, <2>2 DEF shareVars
  <1> QED BY <1>1, <1>2, <1>3, <1>4, <1>5, <1>6, <1>7, <1>8

\* Requests whose types the invariant of the tokens keeps.
LEMMA BecomesTokenRequest ==
    ASSUME RequestsHold', NEW c \in Clients, UNCHANGED workload,
           \A d \in Clients \ {c} : call'[d] = call[d],
           call'[c].kind \in {"createToken", "revealToken", "mcp"}
    PROVE  Becomes(c)
  <1>1. Formed' /\ TokenRequest(call[c])'
    BY DEF RequestsHold, TokenInvariant
  <1>2. PICK r : r = call'[c]
    OBVIOUS
  <1>3. r \in TokenCreation \cup TokenRevelation \cup ToolCall
    BY <1>1, <1>2 DEF TokenRequest
  <1>4. r \in Requests
    BY <1>3, RequestsByKind
  <1>5. RequestWell(r)
    BY <1>2, <1>4 DEF RequestWell
  <1> QED BY <1>1, <1>2, <1>5 DEF Becomes

LEMMA ListingTyped ==
    ASSUME TypesFit, RequestsHold, NEW c \in Clients, BeginsListTokens(c) \/ BeginsRevokeToken(c)
    PROVE  Becomes(c)
  <1>0. Formed /\ token \in TokenTable
    BY DEF RequestsHold, ShareInvariant, TokenInvariant, TokenRows
  <1>1. UNCHANGED workload
    BY DEF BeginsListTokens, BeginsRevokeToken, ListMCPTokens, RevokeMCPToken
  <1>2. PICK kind \in {"listTokens", "revokeToken"}, u \in Users, t \in Tokens \cup {None} :
          Enter(c, [kind |-> kind, step |-> "ready", actor |-> u, loaded |-> token, token |-> t])
    <2>1. CASE BeginsListTokens(c)
      <3>1. PICK u \in Users : ListMCPTokens(c, u)
        BY <2>1 DEF BeginsListTokens
      <3> QED BY <3>1 DEF ListMCPTokens
    <2>2. CASE BeginsRevokeToken(c)
      <3>1. PICK u \in Users, t \in Tokens : RevokeMCPToken(c, u, t)
        BY <2>2 DEF BeginsRevokeToken
      <3> QED BY <3>1 DEF RevokeMCPToken
    <2> QED BY <2>1, <2>2
  <1>3. PICK r : r = [kind |-> kind, step |-> "ready", actor |-> u, loaded |-> token,
                      token |-> t]
    OBVIOUS
  <1>4. r \in TokenListing /\ r.kind = kind
    BY <1>0, <1>3 DEF TokenListing
  <1>5. RequestWell(r)
    BY <1>4, RequestsByKind DEF RequestWell
  <1> QED BY <1>0, <1>1, <1>2, <1>3, <1>5, BecomesRequest

LEMMA TokenStepsTyped ==
    ASSUME TypesFit, RequestsHold, RequestsHold', TokenNext
    PROVE  (\E c \in Clients : Becomes(c)) /\ UNCHANGED rows /\ drafts' \subseteq Tokens
  <1>0. Formed /\ drafts \subseteq Tokens /\ \A c \in Clients : TokenRequest(call[c])
    BY DEF RequestsHold, TokenInvariant, TypesFit, TokenTypeOK
  <1>1. PICK c \in Clients :
              \/ BeginsCreateToken(c) \/ BeginsRevokeToken(c) \/ BeginsListTokens(c)
              \/ BeginsRevealToken(c) \/ BeginsToolCall(c)
              \/ SaveNewToken(c) \/ SaveExpired(c)
              \/ CommitTokenReveal(c) \/ ShowTokenSecret(c) \/ SaveRevokedToken(c)
              \/ ExecuteAuthenticatedTool(c) \/ PrepareToolWrite(c) \/ ReadWithToken(c)
              \/ CommitToolWrite(c) \/ RecordMCPToolCall(c) \/ SendToolAnswer(c)
    BY TokenSteps
  <1>a. ASSUME UNCHANGED workload, NEW r, Enter(c, r),
               r.kind \in {"createToken", "revealToken", "mcp"}
        PROVE  Becomes(c)
    <2>1. call'[c] = r /\ \A d \in Clients \ {c} : call'[d] = call[d]
      BY <1>0, <1>a, Entered
    <2> QED BY <1>a, <2>1, BecomesTokenRequest
  <1>b. ASSUME UNCHANGED workload, NEW s, Go(c, s),
               call[c].kind \in {"createToken", "revealToken", "mcp"}
        PROVE  Becomes(c)
    <2>1. call'[c].kind = call[c].kind /\ \A d \in Clients \ {c} : call'[d] = call[d]
      BY <1>0, <1>b, Gone
    <2> QED BY <1>b, <2>1, BecomesTokenRequest
  <1>c. ASSUME UNCHANGED workload, Leave(c)
        PROVE  Becomes(c)
    BY <1>0, <1>c, BecomesIdle
  <1>2. CASE BeginsListTokens(c) \/ BeginsRevokeToken(c)
    <2>1. UNCHANGED <<rows, tokenVars>>
      BY <1>2, Zenon DEF BeginsListTokens, BeginsRevokeToken, ListMCPTokens, RevokeMCPToken
    <2> QED BY <1>0, <1>2, <2>1, ListingTyped DEF tokenVars
  <1>3. CASE BeginsCreateToken(c) \/ BeginsRevealToken(c)
    <2>1. UNCHANGED <<rows, workload, tokenVars>>
      BY <1>3, Zenon DEF BeginsCreateToken, BeginsRevealToken, CreateMCPToken, MCPToken
    <2>2. \E r : Enter(c, r) /\ r.kind \in {"createToken", "revealToken", "mcp"}
      <3>1. CASE BeginsCreateToken(c)
        <4>1. PICK t \in Tokens, u \in Users, scopes \in Grants, expires \in 1 .. Eternal :
                CreateMCPToken(c, u, t, scopes, expires)
          BY <3>1 DEF BeginsCreateToken
        <4> QED BY <4>1 DEF CreateMCPToken
      <3>2. CASE BeginsRevealToken(c)
        <4>1. PICK t \in Tokens : MCPToken(c, t)
          BY <3>2 DEF BeginsRevealToken
        <4> QED BY <4>1 DEF MCPToken
      <3> QED BY <1>3, <3>1, <3>2
    <2> QED BY <1>0, <1>a, <2>1, <2>2 DEF tokenVars
  <1>4. CASE BeginsToolCall(c)
    <2>1. PICK t \in Tokens, tool \in Tools : AuthenticateMCPToken(c, t, tool)
      BY <1>4 DEF BeginsToolCall
    <2>2. UNCHANGED <<rows, workload, drafts>>
      BY <2>1, Zenon DEF AuthenticateMCPToken
    <2>3. (\E r : Enter(c, r) /\ r.kind \in {"createToken", "revealToken", "mcp"})
            \/ UNCHANGED call
      BY <2>1 DEF AuthenticateMCPToken
    <2>4. CASE UNCHANGED call
      BY <1>0, <2>2, <2>4 DEF Becomes, TypesFit, Formed
    <2> QED BY <1>0, <1>a, <2>2, <2>3, <2>4
  <1>5. CASE SaveNewToken(c) \/ SaveExpired(c) \/ SaveRevokedToken(c)
    <2>1. UNCHANGED <<rows, workload, drafts>> /\ Leave(c)
      BY <1>5, Zenon DEF SaveNewToken, SaveExpired, SaveRevokedToken
    <2> QED BY <1>0, <1>c, <2>1
  <1>6. CASE CommitTokenReveal(c)
    <2>1. UNCHANGED <<rows, workload, drafts>> /\ call[c].kind = "revealToken"
      BY <1>6, Zenon DEF CommitTokenReveal, At
    <2>2. Leave(c) \/ Go(c, "revealed")
      BY <1>6 DEF CommitTokenReveal
    <2> QED BY <1>0, <1>b, <1>c, <2>1, <2>2
  <1>7. CASE ShowTokenSecret(c) \/ SendToolAnswer(c)
    <2>1. UNCHANGED <<rows, workload, tokenVars>> /\ Leave(c)
      BY <1>7, Zenon DEF ShowTokenSecret, SendToolAnswer
    <2> QED BY <1>0, <1>c, <2>1 DEF tokenVars
  <1>8. CASE ExecuteAuthenticatedTool(c) \/ PrepareToolWrite(c) \/ ReadWithToken(c)
               \/ RecordMCPToolCall(c)
    <2>1. UNCHANGED <<rows, workload, tokenVars>> /\ call[c].kind = "mcp"
      BY <1>8, Zenon DEF ExecuteAuthenticatedTool, PrepareToolWrite, ReadWithToken,
         RecordMCPToolCall, At
    <2>2. Leave(c) \/ \E s : Go(c, s)
      BY <1>8, Zenon DEF ExecuteAuthenticatedTool, PrepareToolWrite, ReadWithToken,
         RecordMCPToolCall
    <2> QED BY <1>0, <1>b, <1>c, <2>1, <2>2 DEF tokenVars
  <1>9. CASE CommitToolWrite(c)
    <2>1. UNCHANGED <<rows, workload>> /\ call[c].kind = "mcp"
      BY <1>9, Zenon DEF CommitToolWrite, At
    <2>2. call[c].token \in Tokens
      BY <1>0, <2>1 DEF TokenRequest, ToolCall
    <2>3. drafts' \in {drafts, drafts \cup {call[c].token}}
      BY <1>9 DEF CommitToolWrite
    <2>4. Leave(c) \/ Go(c, "done")
      BY <1>9 DEF CommitToolWrite
    <2> QED BY <1>0, <1>b, <1>c, <2>1, <2>2, <2>3, <2>4
  <1> QED BY <1>1, <1>2, <1>3, <1>4, <1>5, <1>6, <1>7, <1>8, <1>9

LEMMA RotationTyped ==
    ASSUME TypesFit, RequestsHold, RotationNext
    PROVE  (\E c \in Clients : Becomes(c)) /\ UNCHANGED <<rows, proofs, drafts>>
  <1>0. Formed /\ token \in TokenTable /\ share \in ShareTable
    BY DEF RequestsHold, ShareInvariant, TokenInvariant, TokenRows, ShareRows
  <1>1. PICK c \in Clients : RotateCiphertexts(c) \/ SaveRotation(c)
    BY DEF RotationNext
  <1>2. UNCHANGED <<rows, workload, proofs, drafts>>
    BY <1>1, Zenon DEF RotateCiphertexts, SaveRotation, shareVars, tokenVars
  <1>3. CASE SaveRotation(c)
    BY <1>0, <1>2, <1>3, BecomesIdle DEF SaveRotation
  <1>4. CASE RotateCiphertexts(c)
    <2>1. PICK r : r = [kind |-> "rotate", step |-> "ready", tokens |-> token,
                        shares |-> share]
      OBVIOUS
    <2>2. r \in RotationCall /\ r.kind = "rotate"
      BY <1>0, <2>1 DEF RotationCall, TokenTable, ShareTable
    <2>3. Enter(c, r)
      BY <1>4, <2>1 DEF RotateCiphertexts
    <2>4. RequestWell(r)
      BY <2>2, RequestsByKind DEF RequestWell
    <2> QED BY <1>0, <1>2, <2>3, <2>4, BecomesRequest
  <1> QED BY <1>1, <1>2, <1>3, <1>4

LEMMA LibraryTyped ==
    ASSUME RequestsHold, RequestsHold', LibraryNext
    PROVE  (\E c \in Clients : Becomes(c)) /\ UNCHANGED rows
  <1>0. Formed
    BY DEF RequestsHold, ShareInvariant
  <1>1. PICK c \in Clients : Plans(c) \/ SaveLibrary(c)
    BY LibrarySteps
  <1>2. UNCHANGED <<rows, workload>>
    BY <1>1, Zenon DEF Plans, Plan, SaveLibrary
  <1>3. CASE SaveLibrary(c)
    BY <1>0, <1>2, <1>3, BecomesIdle DEF SaveLibrary
  <1>4. CASE Plans(c)
    <2>1. PICK r : Enter(c, r) /\ r.kind \in LibraryKinds
      BY <1>4 DEF Plans, Plan
    <2>2. call'[c] = r /\ \A d \in Clients \ {c} : call'[d] = call[d]
      BY <1>0, <2>1, Entered
    <2>3. Formed' /\ r \in LibraryCall
      BY <2>1, <2>2 DEF RequestsHold, LibraryInvariant, LibraryRequest
    <2>4. r \in Requests /\ r.kind \notin {"configure", "chat"}
      BY <2>1, <2>3, RequestsByKind DEF LibraryKinds
    <2> QED BY <1>2, <2>2, <2>3, <2>4 DEF Becomes, RequestWell
  <1> QED BY <1>1, <1>2, <1>3, <1>4

MessageSteps == {"reserving", "rebuilding", "asking", "finishing", "saving", "releasing"}

\* What applies, and what an answer rests on.
LEMMA BasisTyped ==
    ASSUME TypesFit, NEW target \in Targets
    PROVE  CurrentBasis(target) \in Basis
  <1>1. /\ settings \in [Owners -> [Parts -> Setting \cup {None}]]
        /\ published \in [Branches -> 0 .. MaxVersions]
    BY DEF TypesFit, ChatTypeOK, WorkspaceTypeOK
  <1>2. /\ settings["project"]["provider"] \in Setting \cup {None}
        /\ settings["project"]["prompt"] \in Setting \cup {None}
        /\ settings["system"]["provider"] \in Setting \cup {None}
        /\ settings["system"]["prompt"] \in Setting \cup {None}
    BY <1>1 DEF Owners, Parts
  <1>3. EffectiveProvider \in {None} \cup (Owners \X Setting)
    BY <1>2 DEF EffectiveProvider, IsOn, Owners
  <1>4. EffectivePrompt \in {None} \cup (Owners \X Setting)
    BY <1>2 DEF EffectivePrompt, Owners
  <1>5. /\ Sources(target)[1] \in [Branches -> 0 .. MaxVersions] \cup {None}
        /\ Sources(target)[2] \in SUBSET Branches
    BY <1>1 DEF Sources
  <1> QED BY <1>3, <1>4, <1>5 DEF CurrentBasis, Basis

LEMMA MessageFits ==
    ASSUME NEW r, DOMAIN r = ChatFields, r = [k \in DOMAIN r |-> r[k]],
           r.kind = "chat", r.step \in MessageSteps, r.actor \in Users,
           r.session \in Sessions, r.basis \in Basis, r.token \in {0} \cup Stamps,
           r.asked \in {0} \cup Stamps, r.knew \in SUBSET Stamps, r.mode \in Modes,
           r.heard \in 0 .. MaxFragments, r.ended \in {"no", "stop", "length"},
           r.answered \in BOOLEAN, r.checked \in {0} \cup 1 .. MaxTime + 1,
           r.step \in AskedSteps => r.asked # 0
    PROVE  RequestWell(r)
  <1>1. r \in MessageCall
    BY DEF MessageCall, ChatFields, MessageSteps
  <1> QED BY <1>1, RequestsByKind DEF RequestWell

LEMMA MessageFields ==
    ASSUME NEW q, RequestWell(q), q.kind = "chat"
    PROVE  /\ DOMAIN q = ChatFields /\ q = [k \in DOMAIN q |-> q[k]]
           /\ q.kind = "chat" /\ q.step \in MessageSteps /\ q.actor \in Users
           /\ q.session \in Sessions /\ q.basis \in Basis /\ q.token \in {0} \cup Stamps
           /\ q.asked \in {0} \cup Stamps /\ q.knew \in SUBSET Stamps /\ q.mode \in Modes
           /\ q.heard \in 0 .. MaxFragments /\ q.ended \in {"no", "stop", "length"}
           /\ q.answered \in BOOLEAN /\ q.checked \in {0} \cup 1 .. MaxTime + 1
           /\ q.step \in AskedSteps => q.asked # 0
  <1>1. q \in MessageCall
    BY KindOfRequest DEF RequestWell
  <1>2. /\ DOMAIN q = ChatFields /\ q = [k \in DOMAIN q |-> q[k]]
        /\ q.step \in MessageSteps /\ q.actor \in Users
        /\ q.session \in Sessions /\ q.basis \in Basis /\ q.token \in {0} \cup Stamps
        /\ q.asked \in {0} \cup Stamps /\ q.knew \in SUBSET Stamps /\ q.mode \in Modes
        /\ q.heard \in 0 .. MaxFragments /\ q.ended \in {"no", "stop", "length"}
        /\ q.checked \in {0} \cup 1 .. MaxTime + 1
    BY <1>1 DEF MessageCall, ChatFields, MessageSteps
  <1>3. q.answered \in BOOLEAN
    BY <1>1, Zenon DEF MessageCall
  <1> QED BY <1>2, <1>3 DEF RequestWell

\* A further step of a message.
LEMMA MessageGoesOnTyped ==
    ASSUME TypesFit, Formed, NEW c \in Clients, UNCHANGED workload, NEW s \in MessageSteps,
           Go(c, s), call[c].kind = "chat",
           s \in AskedSteps => call[c].step \in AskedSteps
    PROVE  Becomes(c)
  <1>1. PICK q : q = call[c]
    OBVIOUS
  <1>2. RequestWell(q) /\ q.kind = "chat"
    BY <1>1 DEF TypesFit
  <1>3. DOMAIN q = ChatFields /\ q.answered \in BOOLEAN
    BY <1>2, MessageFields
  <1>4. PICK r : r = [q EXCEPT !.step = s]
    OBVIOUS
  <1>5. /\ DOMAIN r = ChatFields /\ r = [k \in DOMAIN r |-> r[k]]
        /\ r.kind = q.kind /\ r.step = s /\ r.actor = q.actor /\ r.session = q.session
        /\ r.basis = q.basis /\ r.token = q.token /\ r.asked = q.asked /\ r.knew = q.knew
        /\ r.mode = q.mode /\ r.heard = q.heard /\ r.ended = q.ended
        /\ r.checked = q.checked
    BY <1>3, <1>4 DEF ChatFields
  <1>6. r.answered = q.answered
    BY <1>3, <1>4, Zenon DEF ChatFields
  <1>7. r.answered \in BOOLEAN
    BY <1>3, <1>6
  <1>8. s \in AskedSteps => q.asked # 0
    BY <1>1, <1>2, MessageFields
  <1>9. RequestWell(r)
    BY <1>2, <1>5, <1>7, <1>8, MessageFields, MessageFits
  <1> QED BY <1>1, <1>4, <1>9, BecomesFurther

\* Requests about conversations begin.
LEMMA ConversationBeginsTyped ==
    ASSUME TypesFit, RequestsHold, NEW c \in Clients,
           BeginsChat(c) \/ BeginsCreateChat(c) \/ BeginsTest(c) \/ BeginsConfigure(c)
    PROVE  Becomes(c) /\ UNCHANGED <<rows, messages, settings>>
  <1>0. /\ Formed /\ session \in [Sessions -> Session \cup {None}]
        /\ settings \in [Owners -> [Parts -> Setting \cup {None}]]
    BY DEF RequestsHold, ShareInvariant, TypesFit, ChatTypeOK
  <1>1. UNCHANGED <<rows, workload, chatVars>>
    BY Zenon DEF BeginsChat, BeginsCreateChat, BeginsTest, BeginsConfigure, SendAIChatMessage,
       CreateAIChatSession, TestAIProvider, Upsert
  <1>2. CASE BeginsChat(c)
    <2>1. PICK u \in Users, s \in Sessions, mode \in AnswerModes : SendAIChatMessage(c, u, s, mode)
      BY <1>2 DEF BeginsChat
    <2>2. session[s] \in Session /\ session[s].target \in Targets
      BY <1>0, <2>1 DEF SendAIChatMessage, Session
    <2>3. PICK basis : basis = CurrentBasis(session[s].target)
      OBVIOUS
    <2>4. basis \in Basis /\ mode \in Modes
      BY <2>2, <2>3, BasisTyped DEF AnswerModes
    <2>5. PICK r : r = [kind |-> "chat", step |-> "reserving", actor |-> u, session |-> s,
                        basis |-> basis, token |-> 0, asked |-> 0,
                        knew |-> {}, mode |-> mode, heard |-> 0, ended |-> "no",
                        answered |-> FALSE, checked |-> 0]
      OBVIOUS
    <2>6. Enter(c, r)
      BY <2>1, <2>3, <2>5 DEF SendAIChatMessage
    <2>7. /\ DOMAIN r = ChatFields /\ r = [k \in DOMAIN r |-> r[k]]
          /\ r.kind = "chat" /\ r.step = "reserving" /\ r.actor = u /\ r.session = s
          /\ r.basis = basis /\ r.token = 0 /\ r.asked = 0 /\ r.knew = {}
          /\ r.mode = mode /\ r.heard = 0 /\ r.ended = "no" /\ r.checked = 0
      BY <2>5 DEF ChatFields
    <2>8. r.answered \in BOOLEAN
      BY <2>5, Zenon
    <2>9. "reserving" \in MessageSteps /\ "reserving" \notin AskedSteps /\ 0 \in 0 .. MaxFragments
      BY ChatAssumption DEF MessageSteps, AskedSteps
    <2>10. RequestWell(r)
      BY <2>4, <2>7, <2>8, <2>9, MessageFits
    <2> QED BY <1>0, <1>1, <2>6, <2>10, BecomesRequest DEF chatVars
  <1>3. CASE BeginsCreateChat(c)
    <2>1. PICK u \in Users, s \in Sessions, target \in Targets : CreateAIChatSession(c, u, s, target)
      BY <1>3 DEF BeginsCreateChat
    <2>2. PICK basis : basis = CurrentBasis(target)
      OBVIOUS
    <2>3. basis \in Basis
      BY <2>2, BasisTyped
    <2>4. PICK r : r = [kind |-> "createChat", step |-> "ready", actor |-> u, session |-> s,
                        target |-> target, basis |-> basis]
      OBVIOUS
    <2>5. Enter(c, r) /\ r.kind = "createChat"
      BY <2>1, <2>2, <2>4 DEF CreateAIChatSession
    <2>6. r \in ChatCreation
      BY <2>3, <2>4 DEF ChatCreation
    <2>7. RequestWell(r)
      BY <2>5, <2>6, RequestsByKind DEF RequestWell
    <2> QED BY <1>0, <1>1, <2>5, <2>7, BecomesRequest DEF chatVars
  <1>4. CASE BeginsTest(c)
    <2>1. PICK u \in Users, owner \in Owners : TestAIProvider(c, u, owner)
      BY <1>4 DEF BeginsTest
    <2>2. PICK r : r = [kind |-> "testProvider", step |-> "asking", actor |-> u,
                        owner |-> owner]
      OBVIOUS
    <2>3. Enter(c, r) /\ r.kind = "testProvider" /\ r \in ProviderTest
      BY <2>1, <2>2 DEF TestAIProvider, ProviderTest
    <2>4. RequestWell(r)
      BY <2>3, RequestsByKind DEF RequestWell
    <2> QED BY <1>0, <1>1, <2>3, <2>4, BecomesRequest DEF chatVars
  <1>5. CASE BeginsConfigure(c)
    <2>1. PICK u \in Users, owner \in Owners, part \in Parts, enabled \in BOOLEAN :
            Upsert(c, u, owner, part, enabled)
      BY <1>5 DEF BeginsConfigure
    <2>2. PICK loaded : loaded = settings[owner][part]
      OBVIOUS
    <2>3. loaded \in Setting \cup {None} /\ (loaded # None => loaded.revision < MaxRevision)
      BY <1>0, <2>1, <2>2 DEF Upsert
    <2>4. PICK r : r = [kind |-> "configure", step |-> "ready", actor |-> u, owner |-> owner,
                        part |-> part, enabled |-> enabled, loaded |-> loaded]
      OBVIOUS
    <2>5. Enter(c, r) /\ r.kind = "configure" /\ r.loaded = loaded
      BY <2>1, <2>2, <2>4 DEF Upsert
    <2>6. r \in Configuration
      BY <2>3, <2>4, Zenon DEF Configuration
    <2>7. RequestWell(r)
      BY <2>3, <2>5, <2>6, RequestsByKind DEF RequestWell
    <2> QED BY <1>0, <1>1, <2>5, <2>7, BecomesRequest DEF chatVars
  <1> QED BY <1>1, <1>2, <1>3, <1>4, <1>5 DEF chatVars

\* A message's reservation, and its request built again.
LEMMA ReservationTyped ==
    ASSUME TypesFit, RequestsHold, RequestsHold', NEW c \in Clients,
           ReserveAIChatGeneration(c) \/ RebuildAIChatRequest(c)
    PROVE  Becomes(c)
  <1>0. /\ Formed /\ UNCHANGED workload /\ serial \in 0 .. MaxSerial /\ MaxSerial \in Nat
        /\ call[c].kind = "chat" /\ serial < MaxSerial
    BY ChatAssumption
    DEF RequestsHold, ShareInvariant, ChatInvariant, ChatRows, ReserveAIChatGeneration,
        RebuildAIChatRequest, At
  <1>1. PICK q : q = call[c]
    OBVIOUS
  <1>2. RequestWell(q) /\ q.kind = "chat"
    BY <1>0, <1>1 DEF TypesFit
  <1>3. /\ DOMAIN q = ChatFields /\ q = [k \in DOMAIN q |-> q[k]]
        /\ q.answered \in BOOLEAN
    BY <1>2, MessageFields
  <1>4. serial + 1 \in Stamps /\ serial + 1 # 0
    BY <1>0 DEF Stamps
  <1>5. CASE ReserveAIChatGeneration(c)
    <2>1. CASE Leave(c)
      BY <1>0, <2>1, BecomesIdle
    <2>2. CASE Enter(c, [q EXCEPT !.step = "rebuilding", !.token = serial + 1])
      <3>1. PICK r : r = [q EXCEPT !.step = "rebuilding", !.token = serial + 1]
        OBVIOUS
      <3>2. /\ DOMAIN r = ChatFields /\ r = [k \in DOMAIN r |-> r[k]]
            /\ r.kind = q.kind /\ r.step = "rebuilding" /\ r.actor = q.actor
            /\ r.session = q.session /\ r.basis = q.basis /\ r.token = serial + 1
            /\ r.asked = q.asked /\ r.knew = q.knew /\ r.mode = q.mode
            /\ r.heard = q.heard /\ r.ended = q.ended /\ r.checked = q.checked
        BY <1>3, <3>1 DEF ChatFields
      <3>3. r.answered = q.answered
        BY <1>3, <3>1, Zenon DEF ChatFields
      <3>4. r.answered \in BOOLEAN
        BY <1>3, <3>3
      <3>5. "rebuilding" \in MessageSteps /\ "rebuilding" \notin AskedSteps
        BY DEF MessageSteps, AskedSteps
      <3>6. RequestWell(r)
        BY <1>2, <1>4, <3>2, <3>4, <3>5, MessageFields, MessageFits
      <3> QED BY <1>0, <2>2, <3>1, <3>6, BecomesRequest
    <2> QED BY <1>1, <1>5, <2>1, <2>2 DEF ReserveAIChatGeneration
  <1>6. CASE RebuildAIChatRequest(c)
    <2>1. CASE Go(c, "releasing")
      <3>1. "releasing" \in MessageSteps /\ "releasing" \notin AskedSteps
        BY DEF MessageSteps, AskedSteps
      <3> QED BY <1>0, <2>1, <3>1, MessageGoesOnTyped
    <2>2. ASSUME NEW basis, basis = CurrentBasis(session[q.session].target),
                 NEW knew, knew = Known(q.session),
                 Enter(c, [q EXCEPT !.step = "asking", !.asked = serial + 1, !.knew = knew,
                                    !.basis = basis])
          PROVE  Becomes(c)
      <3>1. session[q.session] \in Session
        <4>1. q.session \in Sessions /\ session[q.session] # None
          BY <1>0, <1>1 DEF RequestsHold, ChatInvariant, ChatRequest, MessageRequest
        <4> QED BY <4>1 DEF RequestsHold, ChatInvariant, ChatRows
      <3>2. basis \in Basis
        BY <2>2, <3>1, BasisTyped DEF Session
      <3>3. knew \in SUBSET Stamps
        BY <2>2 DEF Known, Conversation, TypesFit, ChatTypeOK, Message
      <3>4. PICK r : r = [q EXCEPT !.step = "asking", !.asked = serial + 1, !.knew = knew,
                                   !.basis = basis]
        OBVIOUS
      <3>5. /\ DOMAIN r = ChatFields /\ r = [k \in DOMAIN r |-> r[k]]
            /\ r.kind = q.kind /\ r.step = "asking" /\ r.actor = q.actor
            /\ r.session = q.session /\ r.basis = basis /\ r.token = q.token
            /\ r.asked = serial + 1 /\ r.knew = knew /\ r.mode = q.mode
            /\ r.heard = q.heard /\ r.ended = q.ended /\ r.checked = q.checked
        BY <1>3, <3>4 DEF ChatFields
      <3>6. r.answered = q.answered
        BY <1>3, <3>4, Zenon DEF ChatFields
      <3>7. r.answered \in BOOLEAN
        BY <1>3, <3>6
      <3>8. "asking" \in MessageSteps
        BY DEF MessageSteps
      <3>9. RequestWell(r)
        BY <1>2, <1>4, <3>2, <3>3, <3>5, <3>7, <3>8, MessageFields, MessageFits
      <3> QED BY <1>0, <2>2, <3>4, <3>9, BecomesRequest
    <2> QED BY <1>1, <1>6, <2>1, <2>2 DEF RebuildAIChatRequest
  <1> QED BY <1>5, <1>6

\* What a request has heard.
LEMMA HearingTyped ==
    ASSUME TypesFit, RequestsHold, NEW c \in Clients,
           ReadFragment(c) \/ ReadsFinishReason(c) \/ ReadLast(c)
    PROVE  Becomes(c)
  <1>0. /\ Formed /\ UNCHANGED workload /\ now \in 0 .. MaxTime /\ MaxTime \in Nat
        /\ call[c].kind = "chat" /\ call[c].step = "asking"
    BY WorkspaceAssumption
    DEF RequestsHold, ShareInvariant, TypesFit, WorkspaceTypeOK, Times, ReadFragment,
        ReadsFinishReason, ReadFinishReason, ReadLast, At
  <1>1. PICK q : q = call[c]
    OBVIOUS
  <1>2. RequestWell(q) /\ q.kind = "chat" /\ q.step = "asking"
    BY <1>0, <1>1 DEF TypesFit
  <1>3. /\ DOMAIN q = ChatFields /\ q = [k \in DOMAIN q |-> q[k]]
        /\ q.answered \in BOOLEAN /\ q.heard \in 0 .. MaxFragments
    BY <1>2, MessageFields
  <1>4. /\ "asking" \in AskedSteps /\ "finishing" \in AskedSteps
        /\ "asking" \in MessageSteps /\ "finishing" \in MessageSteps
    BY DEF AskedSteps, MessageSteps
  <1>5. q.asked # 0
    BY <1>2, <1>4 DEF RequestWell
  <1>6. CASE ReadFragment(c)
    <2>1. CASE Go(c, "finishing")
      BY <1>0, <1>4, <2>1, MessageGoesOnTyped
    <2>2. CASE /\ q.heard < MaxFragments
               /\ Enter(c, [q EXCEPT !.heard = @ + 1, !.checked = now + 1])
      <3>1. PICK r : r = [q EXCEPT !.heard = @ + 1, !.checked = now + 1]
        OBVIOUS
      <3>2. /\ DOMAIN r = ChatFields /\ r = [k \in DOMAIN r |-> r[k]]
            /\ r.kind = q.kind /\ r.step = q.step /\ r.actor = q.actor
            /\ r.session = q.session /\ r.basis = q.basis /\ r.token = q.token
            /\ r.asked = q.asked /\ r.knew = q.knew /\ r.mode = q.mode
            /\ r.heard = q.heard + 1 /\ r.ended = q.ended /\ r.checked = now + 1
        BY <1>3, <3>1 DEF ChatFields
      <3>3. r.answered = q.answered
        BY <1>3, <3>1, Zenon DEF ChatFields
      <3>4. r.answered \in BOOLEAN
        BY <1>3, <3>3
      <3>5. q.heard + 1 \in 0 .. MaxFragments /\ now + 1 \in 1 .. MaxTime + 1
        BY <1>0, <1>3, <2>2, ChatAssumption
      <3>6. RequestWell(r)
        BY <1>2, <1>5, <3>2, <3>4, <3>5, MessageFields, MessageFits
      <3> QED BY <1>0, <1>1, <2>2, <3>1, <3>6, BecomesRequest
    <2> QED BY <1>1, <1>6, <2>1, <2>2 DEF ReadFragment
  <1>7. CASE ReadsFinishReason(c)
    <2>1. PICK reason \in {"stop", "length"} : Enter(c, [q EXCEPT !.ended = reason])
      BY <1>1, <1>7 DEF ReadsFinishReason, ReadFinishReason
    <2>2. PICK r : r = [q EXCEPT !.ended = reason]
      OBVIOUS
    <2>3. /\ DOMAIN r = ChatFields /\ r = [k \in DOMAIN r |-> r[k]]
          /\ r.kind = q.kind /\ r.step = q.step /\ r.actor = q.actor
          /\ r.session = q.session /\ r.basis = q.basis /\ r.token = q.token
          /\ r.asked = q.asked /\ r.knew = q.knew /\ r.mode = q.mode
          /\ r.heard = q.heard /\ r.ended = reason /\ r.checked = q.checked
      BY <1>3, <2>2 DEF ChatFields
    <2>4. r.answered = q.answered
      BY <1>3, <2>2, Zenon DEF ChatFields
    <2>5. r.answered \in BOOLEAN
      BY <1>3, <2>4
    <2>6. RequestWell(r)
      BY <1>2, <1>5, <2>3, <2>5, MessageFields, MessageFits
    <2> QED BY <1>0, <1>1, <2>1, <2>2, <2>6, BecomesRequest
  <1>8. CASE ReadLast(c)
    <2>1. PICK answered \in BOOLEAN : answered = Complete(q)
      BY DEF Complete
    <2>2. Enter(c, [q EXCEPT !.step = "finishing", !.answered = answered])
      BY <1>1, <1>8, <2>1, Zenon DEF ReadLast
    <2>3. PICK r : r = [q EXCEPT !.step = "finishing", !.answered = answered]
      OBVIOUS
    <2>4. /\ DOMAIN r = ChatFields /\ r = [k \in DOMAIN r |-> r[k]]
          /\ r.kind = q.kind /\ r.step = "finishing" /\ r.actor = q.actor
          /\ r.session = q.session /\ r.basis = q.basis /\ r.token = q.token
          /\ r.asked = q.asked /\ r.knew = q.knew /\ r.mode = q.mode
          /\ r.heard = q.heard /\ r.ended = q.ended /\ r.checked = q.checked
      BY <1>3, <2>3 DEF ChatFields
    <2>5. r.answered = answered
      BY <1>3, <2>3, Zenon DEF ChatFields
    <2>6. r.answered \in BOOLEAN
      BY <2>1, <2>5
    <2>7. RequestWell(r)
      BY <1>2, <1>4, <1>5, <2>4, <2>6, MessageFields, MessageFits
    <2> QED BY <1>0, <1>1, <2>2, <2>3, <2>7, BecomesRequest
  <1> QED BY <1>6, <1>7, <1>8

\* Steps of a message that only go on, or end.
LEMMA MessageStepsTyped ==
    ASSUME TypesFit, RequestsHold, NEW c \in Clients,
           \/ CancelAIChatRequest(c) \/ StorageFails(c) \/ BreakOff(c)
           \/ FinishAIChatMessage(c) \/ CompleteAIChatGeneration(c)
           \/ ReleaseAIChatRequest(c)
    PROVE  Becomes(c)
  <1>1. Formed /\ UNCHANGED workload /\ call[c].kind = "chat"
    BY DEF RequestsHold, ShareInvariant, CancelAIChatRequest, StorageFails, BreakOff,
       FinishAIChatMessage, CompleteAIChatGeneration, ReleaseAIChatRequest, At
  <1>2. \/ Leave(c)
        \/ Go(c, "releasing")
        \/ call[c].step = "asking" /\ Go(c, "finishing")
        \/ call[c].step = "finishing" /\ Go(c, "saving")
    <2>1. FinishAIChatMessage(c) =>
             call[c].step = "finishing" /\ (Go(c, "saving") \/ Go(c, "releasing"))
      <3>1. (Holds(call[c]) /\ StillCurrent(call[c])) \/ ~(Holds(call[c]) /\ StillCurrent(call[c]))
        OBVIOUS
      <3> QED BY <3>1, Zenon DEF FinishAIChatMessage, At
    <2> QED BY <2>1, Zenon DEF CancelAIChatRequest, StorageFails, BreakOff,
           CompleteAIChatGeneration, ReleaseAIChatRequest, At
  <1>3. /\ {"asking", "finishing", "saving"} \subseteq AskedSteps
        /\ {"finishing", "saving", "releasing"} \subseteq MessageSteps
        /\ "releasing" \notin AskedSteps
    BY DEF AskedSteps, MessageSteps
  <1> QED BY <1>1, <1>2, <1>3, BecomesIdle, MessageGoesOnTyped

LEMMA ExchangeTyped ==
    ASSUME TypesFit, NEW c \in Clients, CompleteAIChatGeneration(c)
    PROVE  messages' \subseteq Message
  <1>1. PICK q : q = call[c]
    OBVIOUS
  <1>2. /\ RequestWell(q) /\ q.kind = "chat" /\ q.step = "saving"
        /\ serial \in 0 .. MaxSerial /\ serial < MaxSerial /\ messages \subseteq Message
    BY <1>1 DEF TypesFit, CompleteAIChatGeneration, At, ChatTypeOK
  <1>3. q.session \in Sessions /\ q.asked \in Stamps /\ q.knew \in SUBSET Stamps
    BY <1>2, MessageFields DEF AskedSteps
  <1>4. serial + 1 \in Stamps
    BY <1>2, ChatAssumption DEF Stamps
  <1>5. messages' \in {messages, messages \cup Exchange(q, serial + 1)}
    BY <1>1 DEF CompleteAIChatGeneration
  <1>6. Exchange(q, serial + 1) \subseteq Message
    BY <1>3, <1>4 DEF Exchange, Message
  <1> QED BY <1>2, <1>5, <1>6

LEMMA SettingTyped ==
    ASSUME TypesFit, RequestsHold, NEW c \in Clients, CommitSetting(c)
    PROVE  settings' \in [Owners -> [Parts -> Setting \cup {None}]]
  <1>1. PICK q : q = call[c]
    OBVIOUS
  <1>2. /\ RequestWell(q) /\ q.kind = "configure"
        /\ settings \in [Owners -> [Parts -> Setting \cup {None}]]
    BY <1>1 DEF TypesFit, CommitSetting, At, ChatTypeOK
  <1>3. q \in Configuration /\ (q.loaded # None => q.loaded.revision < MaxRevision)
    BY <1>2, KindOfRequest DEF RequestWell
  <1>4. q.owner \in Owners /\ q.part \in Parts /\ q.loaded \in Setting \cup {None}
    BY <1>3 DEF Configuration
  <1>5. q.enabled \in BOOLEAN
    BY <1>3, Zenon DEF Configuration
  <1>6. PICK n : n = IF q.loaded = None THEN 1 ELSE q.loaded.revision + 1
    OBVIOUS
  <1>7. n \in 1 .. MaxRevision
    BY <1>3, <1>4, <1>6, ChatAssumption DEF Setting
  <1>8. PICK new : new = Written(q.loaded, q.enabled)
    OBVIOUS
  <1>9. new = [enabled |-> q.enabled, revision |-> n]
    BY <1>6, <1>8, Zenon DEF Written
  <1>10. new \in Setting
    BY <1>5, <1>7, <1>9, Zenon DEF Setting
  <1>11. settings' \in {settings, [settings EXCEPT ![q.owner][q.part] = new]}
    BY <1>1, <1>8 DEF CommitSetting
  <1> QED BY <1>2, <1>4, <1>10, <1>11

LEMMA ConfigurationStepsTyped ==
    ASSUME TypesFit, RequestsHold, NEW c \in Clients,
           SaveSession(c) \/ CommitSetting(c) \/ ProviderTested(c)
             \/ AuditAIProviderTest(c) \/ ShowTestResult(c)
    PROVE  Becomes(c)
  <1>0. Formed /\ UNCHANGED workload
    BY DEF RequestsHold, ShareInvariant, SaveSession, CommitSetting, ProviderTested,
       AuditAIProviderTest, ShowTestResult
  <1>1. \/ Leave(c)
        \/ call[c].kind = "testProvider" /\ \E s \in {"auditing", "audited"} : Go(c, s)
    BY Zenon DEF SaveSession, CommitSetting, ProviderTested, AuditAIProviderTest, ShowTestResult, At
  <1>2. ASSUME call[c].kind = "testProvider", NEW s \in {"auditing", "audited"}, Go(c, s)
        PROVE  Becomes(c)
    <2>1. PICK q : q = call[c]
      OBVIOUS
    <2>2. q \in ProviderTest
      BY <1>2, <2>1, KindOfRequest DEF TypesFit, RequestWell
    <2>3. PICK r : r = [q EXCEPT !.step = s]
      OBVIOUS
    <2>4. r \in ProviderTest /\ r.kind = "testProvider"
      BY <2>2, <2>3 DEF ProviderTest
    <2>5. RequestWell(r)
      BY <2>4, RequestsByKind DEF RequestWell
    <2> QED BY <1>0, <1>2, <2>1, <2>3, <2>5, BecomesFurther
  <1> QED BY <1>0, <1>1, <1>2, BecomesIdle

LEMMA ChatStepsTyped ==
    ASSUME TypesFit, RequestsHold, RequestsHold', ChatNext
    PROVE  (\E c \in Clients : Becomes(c)) /\ UNCHANGED rows /\ ChatTypeOK'
  <1>0. /\ messages \subseteq Message
        /\ settings \in [Owners -> [Parts -> Setting \cup {None}]]
    BY DEF TypesFit, ChatTypeOK
  <1>1. PICK c \in Clients :
              \/ BeginsChat(c) \/ BeginsCreateChat(c) \/ BeginsTest(c) \/ BeginsConfigure(c)
              \/ SaveSession(c) \/ CommitSetting(c) \/ ProviderTested(c)
              \/ AuditAIProviderTest(c) \/ ShowTestResult(c)
              \/ ReserveAIChatGeneration(c) \/ RebuildAIChatRequest(c)
              \/ CancelAIChatRequest(c) \/ StorageFails(c)
              \/ ReadFragment(c) \/ ReadsFinishReason(c) \/ ReadLast(c) \/ BreakOff(c)
              \/ FinishAIChatMessage(c) \/ CompleteAIChatGeneration(c)
              \/ ReleaseAIChatRequest(c)
    BY ChatSteps
  <1>2. UNCHANGED rows
    BY <1>1, Zenon DEF BeginsChat, BeginsCreateChat, BeginsTest, BeginsConfigure,
       SendAIChatMessage, CreateAIChatSession, TestAIProvider, Upsert, SaveSession,
       CommitSetting, ProviderTested, AuditAIProviderTest, ShowTestResult,
       ReserveAIChatGeneration, RebuildAIChatRequest, CancelAIChatRequest, StorageFails,
       ReadFragment, ReadsFinishReason, ReadFinishReason, ReadLast, BreakOff,
       FinishAIChatMessage, CompleteAIChatGeneration, ReleaseAIChatRequest
  <1>3. Becomes(c)
    BY <1>1, ConversationBeginsTyped, ConfigurationStepsTyped, ReservationTyped, HearingTyped,
       MessageStepsTyped
  <1>4. messages' = messages \/ CompleteAIChatGeneration(c)
    BY <1>1, Zenon DEF BeginsChat, BeginsCreateChat, BeginsTest, BeginsConfigure,
       SendAIChatMessage, CreateAIChatSession, TestAIProvider, Upsert, SaveSession,
       CommitSetting, ProviderTested, AuditAIProviderTest, ShowTestResult,
       ReserveAIChatGeneration, RebuildAIChatRequest, CancelAIChatRequest, StorageFails,
       ReadFragment, ReadsFinishReason, ReadFinishReason, ReadLast, BreakOff,
       FinishAIChatMessage, ReleaseAIChatRequest, chatVars
  <1>5. settings' = settings \/ CommitSetting(c)
    BY <1>1, Zenon DEF BeginsChat, BeginsCreateChat, BeginsTest, BeginsConfigure,
       SendAIChatMessage, CreateAIChatSession, TestAIProvider, Upsert, SaveSession,
       ProviderTested, AuditAIProviderTest, ShowTestResult,
       ReserveAIChatGeneration, RebuildAIChatRequest, CancelAIChatRequest, StorageFails,
       ReadFragment, ReadsFinishReason, ReadFinishReason, ReadLast, BreakOff,
       FinishAIChatMessage, CompleteAIChatGeneration, ReleaseAIChatRequest, chatVars
  <1>6. messages' \subseteq Message
    BY <1>0, <1>4, ExchangeTyped
  <1>7. settings' \in [Owners -> [Parts -> Setting \cup {None}]]
    BY <1>0, <1>5, SettingTyped
  <1>8. session' \in [Sessions -> Session \cup {None}] /\ serial' \in 0 .. MaxSerial
    BY DEF RequestsHold, ChatInvariant, ChatRows
  <1> QED BY <1>2, <1>3, <1>6, <1>7, <1>8 DEF ChatTypeOK

LEMMA TypesHoldOn ==
    ASSUME TypesFit, RequestsHold, RequestsHold', [Next]_vars
    PROVE  TypesFit'
  <1>0. /\ share' \in [Shares -> ShareRow \cup {None}]
        /\ token' \in [Tokens -> TokenRow \cup {None}] /\ textual' \in BOOLEAN
        /\ LibraryTypeOK' /\ Formed'
    BY DEF RequestsHold, ShareInvariant, ShareRows, ShareTable, TokenInvariant, TokenRows,
       TokenTable, LibraryInvariant, TablesFit
  <1>1. WorkspaceTypeOK /\ ShareTypeOK /\ TokenTypeOK /\ ChatTypeOK
    BY DEF TypesFit
  <1>a. ASSUME NEW c \in Clients, Becomes(c)
        PROVE  \A d \in Clients : RequestWell(call[d])'
    BY <1>a DEF Becomes, TypesFit
  <1>b. ASSUME UNCHANGED chatVars
        PROVE  ChatTypeOK'
    BY <1>1, <1>b, Zenon DEF ChatTypeOK, chatVars
  <1>c. ASSUME NEW c \in Clients, Becomes(c), UNCHANGED rows
        PROVE  WorkspaceTypeOK'
    BY <1>1, <1>c, RowsKeepTypes DEF Becomes
  <1>2. CASE WorkspaceEvent /\ UNCHANGED <<shareVars, tokenVars, chatVars, libraryVars>>
    <2>1. UNCHANGED call
      BY <1>2, Zenon DEF WorkspaceEvent, SwitchAccount, ChangeRole, Archive, Publish, Tick,
         Event
    <2>2. WorkspaceTypeOK'
      BY <1>1, <1>2, EventsKeepTypes
    <2>3. ShareTypeOK' /\ TokenTypeOK'
      BY <1>0, <1>1, <1>2 DEF ShareTypeOK, TokenTypeOK, shareVars, tokenVars
    <2> QED BY <1>0, <1>2, <1>b, <2>1, <2>2, <2>3 DEF TypesFit
  <1>3. CASE ShareNext /\ UNCHANGED <<tokenVars, chatVars, libraryVars>>
    <2>1. (\E c \in Clients : Becomes(c)) /\ UNCHANGED rows /\ proofs' \subseteq Proof
      BY <1>3, ShareStepsTyped
    <2>2. ShareTypeOK' /\ TokenTypeOK'
      BY <1>0, <1>1, <1>3, <2>1 DEF ShareTypeOK, TokenTypeOK, tokenVars
    <2> QED BY <1>0, <1>3, <1>a, <1>b, <1>c, <2>1, <2>2 DEF TypesFit
  <1>4. CASE TokenNext /\ UNCHANGED <<shareVars, chatVars, libraryVars>>
    <2>1. (\E c \in Clients : Becomes(c)) /\ UNCHANGED rows /\ drafts' \subseteq Tokens
      BY <1>4, TokenStepsTyped
    <2>2. ShareTypeOK' /\ TokenTypeOK'
      BY <1>0, <1>1, <1>4, <2>1 DEF ShareTypeOK, TokenTypeOK, shareVars
    <2> QED BY <1>0, <1>4, <1>a, <1>b, <1>c, <2>1, <2>2 DEF TypesFit
  <1>5. CASE RotationNext /\ UNCHANGED <<chatVars, libraryVars>>
    <2>1. (\E c \in Clients : Becomes(c)) /\ UNCHANGED <<rows, proofs, drafts>>
      BY <1>5, RotationTyped
    <2>2. ShareTypeOK' /\ TokenTypeOK'
      BY <1>0, <1>1, <2>1 DEF ShareTypeOK, TokenTypeOK
    <2> QED BY <1>0, <1>5, <1>a, <1>b, <1>c, <2>1, <2>2 DEF TypesFit
  <1>6. CASE ChatNext /\ UNCHANGED <<shareVars, tokenVars, libraryVars>>
    <2>1. (\E c \in Clients : Becomes(c)) /\ UNCHANGED rows /\ ChatTypeOK'
      BY <1>6, ChatStepsTyped
    <2>2. ShareTypeOK' /\ TokenTypeOK'
      BY <1>0, <1>1, <1>6 DEF ShareTypeOK, TokenTypeOK, shareVars, tokenVars
    <2> QED BY <1>0, <1>a, <1>c, <2>1, <2>2 DEF TypesFit
  <1>7. CASE LibraryNext /\ UNCHANGED <<shareVars, tokenVars, chatVars>>
    <2>1. (\E c \in Clients : Becomes(c)) /\ UNCHANGED rows
      BY <1>7, LibraryTyped
    <2>2. ShareTypeOK' /\ TokenTypeOK'
      BY <1>0, <1>1, <1>7 DEF ShareTypeOK, TokenTypeOK, shareVars, tokenVars
    <2> QED BY <1>0, <1>7, <1>a, <1>b, <1>c, <2>1, <2>2 DEF TypesFit
  <1>8. CASE UNCHANGED vars
    <2>1. UNCHANGED <<rows, workload, call, shareVars, tokenVars, chatVars>>
      BY <1>8, Zenon DEF vars
    <2>2. WorkspaceTypeOK'
      BY <1>0, <1>1, <2>1, RowsKeepTypes
    <2>3. ShareTypeOK' /\ TokenTypeOK'
      BY <1>0, <1>1, <2>1 DEF ShareTypeOK, TokenTypeOK, shareVars, tokenVars
    <2> QED BY <1>0, <1>b, <2>1, <2>2, <2>3 DEF TypesFit
  <1> QED BY <1>2, <1>3, <1>4, <1>5, <1>6, <1>7, <1>8 DEF Next

LEMMA TypesFitAtFirst == Init => TypesFit
  <1> SUFFICES ASSUME Init PROVE TypesFit
    OBVIOUS
  <1>1. WorkspaceTypeOK
    BY WorkspaceAssumption
    DEF Init, WorkspaceInit, WorkspaceTypeOK, Admin, Times
  <1>2. ShareTypeOK
    BY DEF Init, ShareInit, ShareTypeOK
  <1>3. TokenTypeOK
    <2>1. token \in [Tokens -> TokenRow \cup {None}] /\ drafts \subseteq Tokens
      BY DEF Init, TokenInit
    <2>2. textual \in BOOLEAN
      BY DEF Init, TokenInit
    <2> QED BY <2>1, <2>2 DEF TokenTypeOK
  <1>4. ChatTypeOK
    <2>1. PICK first : first = [enabled |-> TRUE, revision |-> 1]
      OBVIOUS
    <2>2. first \in Setting
      <3>1. TRUE \in BOOLEAN /\ 1 \in 1 .. MaxRevision
        BY ChatAssumption
      <3> QED BY <2>1, <3>1, Zenon DEF Setting
    <2>3. settings = [o \in Owners |-> [p \in Parts |->
                         IF o = "system" /\ p = "provider" THEN first ELSE None]]
      BY <2>1, Zenon DEF Init, ChatInit
    <2>4. settings \in [Owners -> [Parts -> Setting \cup {None}]]
      BY <2>2, <2>3
    <2>5. serial \in 0 .. MaxSerial
      BY ChatAssumption DEF Init, ChatInit
    <2> QED BY <2>4, <2>5 DEF Init, ChatInit, ChatTypeOK
  <1>5. LibraryTypeOK
    BY FirstTablesFit DEF Init, TablesFit
  <1>6. \A c \in Clients : RequestWell(call[c])
    BY IdleIsWell DEF Init, WorkspaceInit
  <1> QED BY <1>1, <1>2, <1>3, <1>4, <1>5, <1>6 DEF TypesFit

\* Whatever the requests, how many there are and in whatever order they take their
\* steps, every row of shares, tokens, conversations, settings, documents and branches,
\* and every request that waits between two steps, has its type.  Not all of it is a
\* matter of shape: a reader was given only versions that there are
\* (AuthorizePublicShare), a setting is written below its bound because the row it was
\* decided on is (Upsert, CommitSetting), an answer has a question
\* (RebuildAIChatRequest, CompleteAIChatGeneration), and rows are written back only
\* where there were rows (SaveExpired, SaveRevokedToken, SaveRotation).
THEOREM EverythingHasItsType == Spec => []TypeInvariant
  <1>1. Spec => []RequestsHold
    BY ShareInvariantHolds, TokenInvariantHolds, ChatInvariantHolds, LibraryInvariantHolds, PTL
    DEF RequestsHold
  <1>2. TypesFit /\ RequestsHold /\ RequestsHold' /\ [Next]_vars => TypesFit'
    BY TypesHoldOn
  <1>3. TypesFit => TypeInvariant
    BY Zenon DEF TypesFit, TypeInvariant, RequestWell, Requests
  <1> QED BY <1>1, <1>2, <1>3, TypesFitAtFirst, PTL DEF Spec
=============================================================================
