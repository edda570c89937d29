---------------------------- MODULE SessionProofs ----------------------------
(***************************************************************************)
(* The session of src/tools/terminal.cpp over the walked staging tree,     *)
(* proved for every tree, any number of names and inodes and any edits by  *)
(* other processes: the types, the summary's accounts, the order of the    *)
(* candidates, the decisions that are carried out, the files that survive, *)
(* the files that are left alone and the staging tree that disappears.     *)
(***************************************************************************)
EXTENDS Session, FiniteSetTheorems, TLAPS

------------------------------------------------------------------------------
(* Sorting.                                                                *)

(* A finite set with a strict total order, given as the elements before    *)
(* each one, can be listed in that order.  (std::sort)                     *)
LEMMA Sortable ==
  ASSUME NEW S, IsFiniteSet(S), NEW R \in [S -> SUBSET S],
         \A v, w \in S : v # w => v \in R[w] \/ w \in R[v],
         \A v \in S : v \notin R[v],
         \A v, w \in S : v \in R[w] => R[v] \subseteq R[w]
  PROVE  \E s \in [1 .. Cardinality(S) -> S] :
           \A k, l \in 1 .. Cardinality(S) : k < l => s[k] \in R[s[l]]
<1> DEFINE n == Cardinality(S)
           f == [v \in S |-> Cardinality(R[v]) + 1]
<1>1. n \in Nat
  BY FS_CardinalityType
<1>2. \A v \in S : IsFiniteSet(R[v]) /\ Cardinality(R[v]) \in Nat /\ Cardinality(R[v]) < n
  <2> TAKE v \in S
  <2>1. R[v] \in SUBSET S /\ R[v] # S
    OBVIOUS
  <2>2. IsFiniteSet(R[v]) /\ Cardinality(R[v]) <= n /\ Cardinality(R[v]) # n
    BY <2>1, FS_Subset
  <2> QED
    BY <2>2, <1>1, FS_CardinalityType
<1>3. \A v, w \in S : v \in R[w] => Cardinality(R[v]) < Cardinality(R[w])
  <2> SUFFICES ASSUME NEW v \in S, NEW w \in S, v \in R[w]
               PROVE  Cardinality(R[v]) < Cardinality(R[w])
    OBVIOUS
  <2>1. R[v] \in SUBSET R[w] /\ R[v] # R[w]
    OBVIOUS
  <2>2. Cardinality(R[v]) <= Cardinality(R[w]) /\ Cardinality(R[v]) # Cardinality(R[w])
    BY <2>1, <1>2, FS_Subset
  <2> QED
    BY <2>2, <1>2
<1>4. f \in [S -> 1 .. n]
  BY <1>1, <1>2
<1>5. \A v, w \in S : f[v] = f[w] => v = w
  BY <1>2, <1>3
<1>6. IsFiniteSet(1 .. n) /\ Cardinality(1 .. n) = n
  BY <1>1, FS_Interval
<1> HIDE DEF f
<1>7. f \in Injection(S, 1 .. n)
  BY <1>4, <1>5 DEF Injection, IsInjective
<1>8. f \in Surjection(S, 1 .. n)
  BY <1>6, <1>7, FS_Injection
<1>9. \A k \in 1 .. n : \E v \in S : f[v] = k
  BY <1>8 DEF Surjection
<1> DEFINE s == [k \in 1 .. n |-> CHOOSE v \in S : f[v] = k]
<1>10. \A k \in 1 .. n : s[k] \in S /\ f[s[k]] = k
  BY <1>9
<1>11. s \in [1 .. n -> S]
  BY <1>10
<1> HIDE DEF s
<1>12. \A k, l \in 1 .. n : k < l => s[k] \in R[s[l]]
  <2> SUFFICES ASSUME NEW k \in 1 .. n, NEW l \in 1 .. n, k < l
               PROVE  s[k] \in R[s[l]]
    OBVIOUS
  <2>0. s[k] \in S /\ s[l] \in S /\ f[s[k]] = k /\ f[s[l]] = l
    BY <1>10
  <2>1. PICK v \in S, w \in S : v = s[k] /\ w = s[l] /\ f[v] < f[w]
    BY <2>0
  <2>2. v # w
    BY <2>1, <1>4
  <2>3. Cardinality(R[v]) < Cardinality(R[w])
    BY <2>1, <1>2 DEF f
  <2>4. w \notin R[v]
    BY <2>3, <1>2, <1>3
  <2> QED
    BY <2>1, <2>2, <2>4
<1> QED
  BY <1>11, <1>12

(* Whatever lists a finite set in a strict order lists every element once. *)
LEMMA Listed ==
  ASSUME NEW S, IsFiniteSet(S), NEW R \in [S -> SUBSET S],
         \A v \in S : v \notin R[v],
         NEW s \in [1 .. Cardinality(S) -> S],
         \A k, l \in 1 .. Cardinality(S) : k < l => s[k] \in R[s[l]]
  PROVE  /\ s \in Seq(S) /\ Len(s) = Cardinality(S) /\ DOMAIN s = 1 .. Len(s)
         /\ \A k, l \in DOMAIN s : s[k] = s[l] => k = l
         /\ \A v \in S : \E k \in DOMAIN s : s[k] = v
<1> DEFINE n == Cardinality(S)
<1>1. n \in Nat /\ IsFiniteSet(1 .. n) /\ Cardinality(1 .. n) = n
  BY FS_CardinalityType, FS_Interval
<1>2. s \in Seq(S) /\ Len(s) = n /\ DOMAIN s = 1 .. n
  BY <1>1
<1>3. \A k, l \in 1 .. n : s[k] = s[l] => k = l
  BY <1>1
<1>4. s \in Injection(1 .. n, S)
  BY <1>3 DEF Injection, IsInjective
<1>5. s \in Surjection(1 .. n, S)
  BY <1>1, <1>4, FS_Injection
<1> QED
  BY <1>2, <1>3, <1>5 DEF Surjection

(* The depth of a path is a number, and a directory is less deep than what *)
(* is below it.                                                            *)
LEMMA Depths ==
  /\ \A p \in Path : Above[p] \in SUBSET Path /\ Cardinality(Above[p]) \in Nat /\ Rank[p] \in Nat
  /\ \A p, q \in Path : p \in Above[q] => Cardinality(Above[p]) < Cardinality(Above[q])
<1>1. \A p \in Path : Above[p] \in SUBSET Path /\ Rank[p] \in Nat
  BY PathAssumption
<1>2. \A p \in Path : IsFiniteSet(Above[p]) /\ Cardinality(Above[p]) \in Nat
  BY <1>1, PathAssumption, FS_Subset, FS_CardinalityType
<1>3. ASSUME NEW p \in Path, NEW q \in Path, p \in Above[q]
      PROVE  Cardinality(Above[p]) < Cardinality(Above[q])
  <2>1. Above[p] \in SUBSET Above[q] /\ Above[p] # Above[q]
    BY <1>3, PathAssumption
  <2>2. Cardinality(Above[p]) <= Cardinality(Above[q]) /\ Cardinality(Above[p]) # Cardinality(Above[q])
    BY <2>1, <1>2, FS_Subset
  <2> QED
    BY <2>2, <1>2
<1> QED
  BY <1>1, <1>2, <1>3

(* scan() returns every candidate once, in its order.                      *)
LEMMA EntriesSorted ==
  ASSUME NEW E, IsFiniteSet(E), \A v \in E : v.path \in Path,
         \A v, w \in E : v.path = w.path => v = w
  PROVE  LET s == Sorted(E, Before)
         IN /\ s \in Seq(E) /\ Len(s) = Cardinality(E) /\ DOMAIN s = 1 .. Len(s)
            /\ \A k, l \in DOMAIN s : s[k] = s[l] => k = l
            /\ \A v \in E : \E k \in DOMAIN s : s[k] = v
            /\ \A k, l \in DOMAIN s : k < l => Before(s[k], s[l])
<1> DEFINE R == [w \in E |-> {v \in E : Before(v, w)}]
<1>1. \A v \in E : /\ Rank[v.path] \in Nat /\ Cardinality(Above[v.path]) \in Nat
                   /\ (v.cd.staged.type = "directory") \in BOOLEAN
  BY Depths
<1>2. \A v, w \in E : Rank[v.path] = Rank[w.path] => v = w
  BY PathAssumption
<1>3. R \in [E -> SUBSET E]
  OBVIOUS
<1>4. \A v \in E : ~Before(v, v)
  BY <1>1 DEF Before
<1>5. \A v, w \in E : v # w => Before(v, w) \/ Before(w, v)
  BY <1>1, <1>2 DEF Before
<1>6. \A u, v, w \in E : Before(u, v) /\ Before(v, w) => Before(u, w)
  BY <1>1 DEF Before
<1>7. /\ \A v, w \in E : v # w => v \in R[w] \/ w \in R[v]
      /\ \A v \in E : v \notin R[v]
      /\ \A v, w \in E : v \in R[w] => R[v] \subseteq R[w]
  BY <1>4, <1>5, <1>6
<1>8. \A v, w \in E : v \in R[w] => Before(v, w)
  OBVIOUS
<1>9. \A s \in [1 .. Cardinality(E) -> E] :
        \A k, l \in 1 .. Cardinality(E) : s[k] \in R[s[l]] <=> Before(s[k], s[l])
  OBVIOUS
<1> HIDE DEF R
<1> DEFINE s == Sorted(E, Before)
<1>10. \E r \in [1 .. Cardinality(E) -> E] :
         \A k, l \in 1 .. Cardinality(E) : k < l => r[k] \in R[r[l]]
  BY <1>3, <1>7, Sortable
<1>11. \E r \in [1 .. Cardinality(E) -> E] :
         \A k, l \in DOMAIN r : k < l => Before(r[k], r[l])
  <2>1. PICK r \in [1 .. Cardinality(E) -> E] :
          \A k, l \in 1 .. Cardinality(E) : k < l => r[k] \in R[r[l]]
    BY <1>10
  <2>2. \A k, l \in DOMAIN r : k < l => Before(r[k], r[l])
    BY <2>1, <1>9
  <2> QED
    BY <2>2
<1>12. s \in [1 .. Cardinality(E) -> E] /\ \A k, l \in DOMAIN s : k < l => Before(s[k], s[l])
  BY <1>11 DEF Sorted
<1> HIDE DEF s
<1>13. \A k, l \in 1 .. Cardinality(E) : k < l => s[k] \in R[s[l]]
  BY <1>12, <1>9
<1>a. \A v \in E : v \notin R[v]
  BY <1>7
<1>b. s \in [1 .. Cardinality(E) -> E]
  BY <1>12
<1>14. /\ s \in Seq(E) /\ Len(s) = Cardinality(E) /\ DOMAIN s = 1 .. Len(s)
       /\ \A k, l \in DOMAIN s : s[k] = s[l] => k = l
       /\ \A v \in E : \E k \in DOMAIN s : s[k] = v
  BY <1>3, <1>a, <1>b, <1>13, Listed, Zenon
<1> QED
  BY <1>12, <1>14 DEF s

(* Paths can be sorted by their depths.                                    *)
LEMMA PathsSorted ==
  ASSUME NEW E \in SUBSET Path
  PROVE  LET s == Sorted(E, LAMBDA p, q :
                    \/ Cardinality(Above[p]) > Cardinality(Above[q])
                    \/ Cardinality(Above[p]) = Cardinality(Above[q]) /\ Rank[p] < Rank[q])
         IN /\ s \in Seq(E)
            /\ \A p \in E : \E k \in DOMAIN s : s[k] = p
            /\ \A k, l \in DOMAIN s : k < l => Cardinality(Above[s[k]]) >= Cardinality(Above[s[l]])
<1> DEFINE Deeper(p, q) == \/ Cardinality(Above[p]) > Cardinality(Above[q])
                           \/ Cardinality(Above[p]) = Cardinality(Above[q]) /\ Rank[p] < Rank[q]
           R == [w \in E |-> {v \in E : Deeper(v, w)}]
<1>1. \A p \in E : p \in Path /\ Rank[p] \in Nat /\ Cardinality(Above[p]) \in Nat
  BY Depths
<1>2. IsFiniteSet(E)
  BY PathAssumption, FS_Subset
<1>3. R \in [E -> SUBSET E]
  OBVIOUS
<1>4. /\ \A v, w \in E : v # w => v \in R[w] \/ w \in R[v]
      /\ \A v \in E : v \notin R[v]
      /\ \A v, w \in E : v \in R[w] => R[v] \subseteq R[w]
  <2>1. \A v \in E : ~Deeper(v, v)
    BY <1>1
  <2>2. \A v, w \in E : v # w => Deeper(v, w) \/ Deeper(w, v)
    BY <1>1, PathAssumption
  <2>3. \A u, v, w \in E : Deeper(u, v) /\ Deeper(v, w) => Deeper(u, w)
    BY <1>1
  <2> HIDE DEF Deeper
  <2> QED
    BY <2>1, <2>2, <2>3
<1>5. \A v, w \in E : v \in R[w] <=> Deeper(v, w)
  OBVIOUS
<1> HIDE DEF R
<1>6. PICK r \in [1 .. Cardinality(E) -> E] :
        \A k, l \in 1 .. Cardinality(E) : k < l => r[k] \in R[r[l]]
  BY <1>2, <1>3, <1>4, Sortable
<1> DEFINE s == CHOOSE x \in [1 .. Cardinality(E) -> E] :
                  \A k, l \in DOMAIN x : k < l => Deeper(x[k], x[l])
<1>7. s = Sorted(E, LAMBDA p, q :
             \/ Cardinality(Above[p]) > Cardinality(Above[q])
             \/ Cardinality(Above[p]) = Cardinality(Above[q]) /\ Rank[p] < Rank[q])
  BY Zenon DEF Sorted
<1>8. \A k, l \in DOMAIN r : k < l => Deeper(r[k], r[l])
  <2> HIDE DEF Deeper
  <2> QED
    BY <1>5, <1>6
<1>9. s \in [1 .. Cardinality(E) -> E] /\ \A k, l \in DOMAIN s : k < l => Deeper(s[k], s[l])
  <2> HIDE DEF Deeper
  <2> QED
    BY <1>8
<1> HIDE DEF s
<1>10. \A k, l \in 1 .. Cardinality(E) : k < l => s[k] \in R[s[l]]
  <2> HIDE DEF Deeper
  <2> QED
    BY <1>5, <1>9
<1>a. \A v \in E : v \notin R[v]
  BY <1>4
<1>b. s \in [1 .. Cardinality(E) -> E]
  BY <1>9
<1>11. /\ s \in Seq(E) /\ Len(s) = Cardinality(E) /\ DOMAIN s = 1 .. Len(s)
       /\ \A k, l \in DOMAIN s : s[k] = s[l] => k = l
       /\ \A v \in E : \E k \in DOMAIN s : s[k] = v
  BY <1>2, <1>3, <1>a, <1>b, <1>10, Listed, Zenon
<1>12. \A k, l \in DOMAIN s : k < l => Cardinality(Above[s[k]]) >= Cardinality(Above[s[l]])
  <2> SUFFICES ASSUME NEW k \in DOMAIN s, NEW l \in DOMAIN s, k < l
               PROVE  Cardinality(Above[s[k]]) >= Cardinality(Above[s[l]])
    OBVIOUS
  <2>1. s[k] \in E /\ s[l] \in E /\ Deeper(s[k], s[l])
    BY <1>9
  <2> QED
    BY <2>1, <1>1
<1> QED
  BY <1>7, <1>11, <1>12

(* cleanup_empty_directories() tries every directory once, the deepest     *)
(* first.                                                                  *)
LEMMA DirectoriesSorted ==
  /\ StagedDirectories \in Seq(Path)
  /\ \A p \in Path : IsDirectory("staged", p) =>
       \E k \in DOMAIN StagedDirectories : StagedDirectories[k] = p
  /\ \A k \in DOMAIN StagedDirectories : IsDirectory("staged", StagedDirectories[k])
  /\ \A k, l \in DOMAIN StagedDirectories :
       k < l => Cardinality(Above[StagedDirectories[k]]) >= Cardinality(Above[StagedDirectories[l]])
<1> DEFINE E == {p \in Path : IsDirectory("staged", p)}
           s == StagedDirectories
<1>1. /\ s \in Seq(E)
      /\ \A p \in E : \E k \in DOMAIN s : s[k] = p
      /\ \A k, l \in DOMAIN s : k < l => Cardinality(Above[s[k]]) >= Cardinality(Above[s[l]])
  BY PathsSorted, Zenon DEF StagedDirectories
<1> HIDE DEF s
<1>2. s \in Seq(Path) /\ \A k \in DOMAIN s : s[k] \in E
  BY <1>1
<1> QED
  BY <1>1, <1>2 DEF s

------------------------------------------------------------------------------
(* The trees.                                                              *)

(* The names and the inode table have their types, and an inode is in use  *)
(* exactly while a name refers to it.                                      *)
FsOK ==
  /\ name \in [Tree -> [Path -> Ino \cup {NoIno}]]
  /\ node \in [Ino -> Node \cup {NoNode}]
  /\ \A i \in Ino : node[i] # NoNode <=> \E t \in Tree, p \in Path : name[t][p] = i

(* What time and a library call do to an inode.                            *)
Ages ==
  \A i \in Ino : node'[i] # NoNode =>
    IF node[i] = NoNode THEN node'[i].ctime = 1
    ELSE /\ node'[i].type = node[i].type
         /\ node'[i] = node[i] \/ node'[i].ctime = 1
         /\ edits' = edits => node'[i].data = node[i].data

(* A free inode, of which there is always one, and what the inode table    *)
(* says of it.                                                             *)
LEMMA FreeInode ==
  ASSUME FsOK
  PROVE  (CHOOSE i \in Unused : TRUE) \in Unused
<1> DEFINE All == Tree \X Path
           Taken == {x \in All : Present(x[1], x[2])}
           Used == {i \in Ino : \E t \in Tree, p \in Path : name[t][p] = i}
           g == [x \in Taken |-> name[x[1]][x[2]]]
<1>1. IsFiniteSet(Tree)
  <2>1. Tree = {"installed"} \cup {"staged"}
    BY DEF Tree
  <2>2. IsFiniteSet({"installed"})
    BY FS_Singleton
  <2> QED
    BY <2>1, <2>2, FS_AddElement
<1>2. IsFiniteSet(All) /\ Cardinality(All) \in Nat
  BY <1>1, PathAssumption, FS_Product, FS_CardinalityType
<1>3. IsFiniteSet(Taken) /\ Cardinality(Taken) \in Nat /\ Cardinality(Taken) <= Cardinality(All)
  <2>1. Taken \in SUBSET All
    OBVIOUS
  <2> QED
    BY <2>1, <1>2, FS_Subset, FS_CardinalityType
<1>4. Cardinality(Used) \in Nat /\ Cardinality(Used) <= Cardinality(Taken)
  <2>1. g \in [Taken -> Used]
    BY DEF FsOK, Present
  <2>2. \A i \in Used : \E x \in Taken : g[x] = i
    <3> SUFFICES ASSUME NEW i \in Used
                 PROVE  \E x \in Taken : g[x] = i
      OBVIOUS
    <3>1. PICK t \in Tree, p \in Path : name[t][p] = i
      OBVIOUS
    <3>2. <<t, p>> \in Taken /\ g[<<t, p>>] = i
      BY <3>1, InoAssumption DEF Present
    <3> QED
      BY <3>2
  <2> HIDE DEF g, Taken, Used
  <2>3. g \in Surjection(Taken, Used)
    BY <2>1, <2>2 DEF Surjection
  <2> QED
    BY <1>3, <2>3, FS_Surjection, FS_CardinalityType
<1>5. Used # Ino
  <2>1. Cardinality(Ino) \in Nat /\ Cardinality(Ino) > Cardinality(All)
    BY InodeAssumption, FS_CardinalityType
  <2> HIDE DEF Used, Taken, All
  <2> QED
    BY <2>1, <1>2, <1>3, <1>4
<1>6. Unused = Ino \ Used
  BY DEF Unused
<1> HIDE DEF Used
<1>7. Used \subseteq Ino
  BY DEF Used
<1> QED
  BY <1>5, <1>6, <1>7


LEMMA FreeMeansFree ==
  ASSUME FsOK, NEW i \in Unused
  PROVE  i \in Ino /\ i # NoIno /\ node[i] = NoNode /\ \A t \in Tree, p \in Path : name[t][p] # i
BY InoAssumption DEF FsOK, Unused

LEMMA StampedNode ==
  /\ \A n \in Node, c \in Nat :
       /\ Stamped(n, c) \in Node /\ Stamped(n, c) # NoNode /\ Stamped(n, c).ctime = c
       /\ Stamped(n, c).type = n.type /\ Stamped(n, c).data = n.data
       /\ Stamped(n, c).mode = n.mode /\ Stamped(n, c).owner = n.owner
  /\ \A c \in Nat : Stamped(NoNode, c) = NoNode
  /\ \A n \in Node, c, d \in Nat : Stamped(Stamped(n, c), d) = Stamped(n, d)
<1>1. ASSUME NEW n \in Node, NEW c \in Nat
      PROVE  /\ Stamped(n, c) \in Node
             /\ Stamped(n, c) = [n EXCEPT !.ctime = c]
             /\ Stamped(n, c).ctime = c
             /\ Stamped(n, c).type = n.type /\ Stamped(n, c).data = n.data
             /\ Stamped(n, c).mode = n.mode /\ Stamped(n, c).owner = n.owner
  BY NodeAssumption DEF Stamped, Node
<1>2. ASSUME NEW n \in Node, NEW c \in Nat, NEW d \in Nat
      PROVE  Stamped(Stamped(n, c), d) = Stamped(n, d)
  <2>1. \A m \in Node, e \in Nat : Stamped(m, e)
          = [type |-> m.type, data |-> m.data, mode |-> m.mode, owner |-> m.owner, ctime |-> e]
    BY <1>1 DEF Node
  <2>2. Stamped(n, c) \in Node
    BY <1>1
  <2> QED
    BY <1>1, <2>1, <2>2
<1>3. \A c \in Nat : Stamped(NoNode, c) = NoNode
  BY DEF Stamped
<1> QED
  BY <1>1, <1>2, <1>3, NodeAssumption

(* A change of the two trees that leaves no name without an object: the    *)
(* tables keep their types, only what is touched, or a directory an entry  *)
(* of which changes, gets a new time, and what no name refers to is        *)
(* released.                                                               *)
LEMMA Committed ==
  ASSUME FsOK,
         NEW names \in [Tree -> [Path -> Ino \cup {NoIno}]],
         NEW nd \in [Ino -> Node \cup {NoNode}],
         NEW touched,
         \A t \in Tree, p \in Path : names[t][p] # NoIno => nd[names[t][p]] # NoNode,
         Commit(names, nd, touched)
  PROVE  /\ FsOK' /\ name' = names
         /\ \A i \in Ino : node'[i] # NoNode =>
              /\ nd[i] # NoNode
              /\ node'[i] = nd[i] \/ node'[i] = Stamped(nd[i], 1)
              /\ i \in touched => node'[i] = Stamped(nd[i], 1)
              /\ node'[i] # nd[i] /\ i \notin touched =>
                   \E t \in Tree, p \in Path : \E q \in Parent(p) :
                     name'[t][p] # name[t][p] /\ name'[t][q] = i
<1> DEFINE parents == {i \in Ino : \E t \in Tree, p \in Path : \E q \in Parent(p) :
                         names[t][p] # name[t][p] /\ names[t][q] = i}
           gone(i) == \A t \in Tree, p \in Path : names[t][p] # i
<1>1. /\ name' = names
      /\ node' = [i \in Ino |-> IF gone(i) THEN NoNode
                                ELSE IF i \in touched \cup parents THEN Stamped(nd[i], 1) ELSE nd[i]]
  BY Zenon DEF Commit
<1>2. \A i \in Ino : ~gone(i) => nd[i] \in Node
  BY InoAssumption
<1>3. \A i \in Ino : nd[i] \in Node => Stamped(nd[i], 1) \in Node /\ Stamped(nd[i], 1) # NoNode
  BY StampedNode
<1>4. \A i \in Ino : node'[i] = IF gone(i) THEN NoNode
                                ELSE IF i \in touched \cup parents THEN Stamped(nd[i], 1) ELSE nd[i]
  BY <1>1
<1>5. \A i \in parents : \E t \in Tree, p \in Path : \E q \in Parent(p) :
        name'[t][p] # name[t][p] /\ name'[t][q] = i
  BY <1>1
<1>6. \A i \in Ino : gone(i) <=> ~\E t \in Tree, p \in Path : name'[t][p] = i
  BY <1>1
<1>7. node' \in [Ino -> Node \cup {NoNode}] /\ name' \in [Tree -> [Path -> Ino \cup {NoIno}]]
  <2> HIDE DEF gone, parents
  <2> QED
    BY <1>1, <1>2, <1>3
<1>8. \A i \in Ino : node'[i] # NoNode <=> ~gone(i)
  <2> HIDE DEF gone, parents
  <2> QED
    BY <1>2, <1>3, <1>4, NodeAssumption
<1>9. FsOK'
  <2> HIDE DEF gone, parents
  <2> QED
    BY <1>6, <1>7, <1>8 DEF FsOK
<1>10. \A i \in Ino : node'[i] # NoNode =>
         /\ nd[i] # NoNode
         /\ node'[i] = nd[i] \/ node'[i] = Stamped(nd[i], 1)
         /\ i \in touched => node'[i] = Stamped(nd[i], 1)
         /\ node'[i] # nd[i] /\ i \notin touched => i \in parents
  <2> HIDE DEF gone, parents
  <2> QED
    BY <1>2, <1>4, <1>8, NodeAssumption
<1> HIDE DEF gone, parents
<1> QED
  BY <1>1, <1>5, <1>9, <1>10

(* The age of what a change leaves.                                        *)
LEMMA CommittedAges ==
  ASSUME FsOK, NEW nd \in [Ino -> Node \cup {NoNode}], NEW touched,
         \A i \in Ino : node'[i] # NoNode =>
           /\ nd[i] # NoNode
           /\ node'[i] = nd[i] \/ node'[i] = Stamped(nd[i], 1)
           /\ i \in touched => node'[i] = Stamped(nd[i], 1),
         \A i \in Ino : nd[i] # node[i] => i \in touched,
         \A i \in Ino : node[i] # NoNode /\ nd[i] # NoNode =>
           nd[i].type = node[i].type /\ (edits' = edits => nd[i].data = node[i].data)
  PROVE  Ages
<1> SUFFICES ASSUME NEW i \in Ino, node'[i] # NoNode
             PROVE  IF node[i] = NoNode THEN node'[i].ctime = 1
                    ELSE /\ node'[i].type = node[i].type
                         /\ node'[i] = node[i] \/ node'[i].ctime = 1
                         /\ edits' = edits => node'[i].data = node[i].data
  BY DEF Ages
<1>1. nd[i] \in Node /\ node[i] \in Node \cup {NoNode}
  BY DEF FsOK
<1>2. /\ Stamped(nd[i], 1).ctime = 1 /\ Stamped(nd[i], 1).type = nd[i].type
      /\ Stamped(nd[i], 1).data = nd[i].data
  BY <1>1, StampedNode
<1>3. CASE node[i] = NoNode
  <2>1. i \in touched
    BY <1>1, <1>3, NodeAssumption
  <2> QED
    BY <2>1, <1>2, <1>3
<1>4. CASE node[i] # NoNode
  <2>1. CASE node'[i] = nd[i]
    <3>1. CASE i \in touched
      BY <3>1, <1>1, <1>2, <1>4
    <3>2. CASE i \notin touched
      BY <3>2, <2>1, <1>4
    <3> QED
      BY <3>1, <3>2
  <2>2. CASE node'[i] = Stamped(nd[i], 1)
    BY <2>2, <1>1, <1>2, <1>4
  <2> QED
    BY <2>1, <2>2
<1> QED
  BY <1>3, <1>4

------------------------------------------------------------------------------
(* Candidates.                                                             *)

View == [path: Path, cd: CandidateRecord, was: [Tree -> Node \cup {NoNode}], alone: BOOLEAN]

(* What a candidate says of the two objects it was made from.              *)
Snapshot(v) ==
  /\ \A t \in Tree :
       IF v.was[t] = NoNode THEN v.cd[t] = Missing
       ELSE /\ v.cd[t].exists /\ v.cd[t].inode \in Ino /\ v.cd[t].ctime = 0
            /\ v.cd[t].type = v.was[t].type /\ v.was[t].ctime = 0
  /\ v.was["staged"] # NoNode
  /\ v.cd.staged.type = "directory" => v.was["installed"] # NoNode
  /\ v.cd.equal =>
       \/ /\ v.was["installed"] # NoNode /\ v.cd.installed.type = "regular" /\ v.cd.staged.type = "regular"
          /\ v.was["installed"].data = v.was["staged"].data
       \/ v.cd.installed.type = "directory" /\ v.cd.staged.type = "directory"
  /\ v.cd.installed.inode = v.cd.staged.inode => v.cd.equal

LEMMA Views ==
  ASSUME NEW v \in View
  PROVE  /\ v.path \in Path /\ v.cd.equal \in BOOLEAN /\ v.cd.text \in BOOLEAN
         /\ v.was \in [Tree -> Node \cup {NoNode}] /\ v.alone \in BOOLEAN
         /\ \A t \in Tree : v.cd[t] \in Fingerprint
         /\ v.cd["installed"] = v.cd.installed /\ v.cd["staged"] = v.cd.staged
BY DEF View, CandidateRecord, Tree

LEMMA RelicIsMissing ==
  ASSUME NEW v \in View, Snapshot(v)
  PROVE  /\ Relic(v.cd) <=> v.was["installed"] = NoNode
         /\ Relic(v.cd) => v.cd.installed = Missing /\ v.cd.staged.type # "directory"
<1>1. v.was["installed"] # NoNode => v.cd.installed.type \in NodeType
  BY Views DEF Snapshot, Tree, Node
<1>2. v.was["installed"] = NoNode => v.cd.installed = Missing
  BY Views DEF Snapshot, Tree
<1>3. Relic(v.cd) <=> v.cd.installed.type = "missing"
  BY DEF Relic, State, ClassifyCandidate
<1> QED
  BY <1>1, <1>2, <1>3 DEF Missing, NodeType, Snapshot

(* What validate_current() knows when it returns.                          *)
LEMMA FreshFacts ==
  ASSUME FsOK, NEW v \in View, Snapshot(v), StillMatches(v), NEW t \in Tree
  PROVE  IF v.was[t] = NoNode THEN name[t][v.path] = NoIno
         ELSE /\ name[t][v.path] \in Ino /\ name[t][v.path] # NoIno
              /\ name[t][v.path] = v.cd[t].inode
              /\ At(t, v.path) \in Node /\ At(t, v.path) # NoNode
              /\ At(t, v.path).type = v.was[t].type
              /\ v.was[t].type # "directory" => At(t, v.path).ctime = 0
<1>1. v.path \in Path /\ name[t][v.path] \in Ino \cup {NoIno}
  BY Views DEF FsOK
<1>2. /\ v.cd[t].exists = Sees(t, v.path).exists /\ v.cd[t].inode = Sees(t, v.path).inode
      /\ v.cd[t].type = Sees(t, v.path).type
      /\ v.cd[t].exists => v.cd[t].type = "directory" \/ v.cd[t].ctime = Sees(t, v.path).ctime
  BY DEF StillMatches, FingerprintMatches
<1>3. CASE v.was[t] = NoNode
  <2>1. v.cd[t] = Missing
    BY <1>3 DEF Snapshot
  <2>2. ~v.cd[t].exists
    BY <2>1 DEF Missing
  <2>3. name[t][v.path] # NoIno => Sees(t, v.path).exists
    BY DEF Sees, Observe
  <2> QED
    BY <1>2, <1>3, <2>2, <2>3
<1>4. CASE v.was[t] # NoNode
  <2>1. v.cd[t].exists /\ v.cd[t].ctime = 0 /\ v.cd[t].type = v.was[t].type
    BY <1>4 DEF Snapshot
  <2>2. name[t][v.path] # NoIno
    BY <1>2, <2>1 DEF Sees, Observe, Missing
  <2>3. /\ Sees(t, v.path).inode = name[t][v.path] /\ Sees(t, v.path).type = At(t, v.path).type
        /\ Sees(t, v.path).ctime = At(t, v.path).ctime
    BY <2>2 DEF Sees, Observe, At
  <2>4. At(t, v.path) # NoNode /\ At(t, v.path) \in Node
    BY <1>1, <2>2 DEF FsOK, At
  <2> QED
    BY <1>1, <1>2, <1>4, <2>1, <2>2, <2>3, <2>4
<1> QED
  BY <1>3, <1>4

(* What a step of a library call does to the trees.                            *)
Works(p) ==
  /\ FsOK' /\ Ages
  /\ \A q \in Path : q # p => name'["staged"][q] = name["staged"][q]
  /\ name'["staged"][p] \in {NoIno, name["staged"][p]}
  /\ \A i \in Ino :
       node[i] # NoNode /\ node'[i] # NoNode /\ node'[i] # node[i]
       /\ (\A t \in Tree : name[t][p] # i) =>
         /\ node'[i] = Stamped(node[i], 1)
         /\ \E t \in Tree, r \in Path : \E q \in Parent(r) : name'[t][r] # name[t][r] /\ name'[t][q] = i

(* Taking the staged name of a path away.                                  *)
LEMMA Unstaged ==
  ASSUME FsOK, NEW p \in Path
  PROVE  LET names == [name EXCEPT !["staged"][p] = NoIno]
         IN /\ names \in [Tree -> [Path -> Ino \cup {NoIno}]]
            /\ names["installed"] = name["installed"]
            /\ names["staged"][p] = NoIno
            /\ \A q \in Path : q # p => names["staged"][q] = name["staged"][q]
BY DEF FsOK, Tree

(* A change of the trees that a call on the pair at p may make: its own    *)
(* names, its own two objects at most in their metadata, and new objects.  *)
Fits(p, names, nd, touched) ==
  /\ names \in [Tree -> [Path -> Ino \cup {NoIno}]]
  /\ nd \in [Ino -> Node \cup {NoNode}]
  /\ \A t \in Tree, q \in Path : names[t][q] # NoIno => nd[names[t][q]] # NoNode
  /\ \A q \in Path : q # p => names["staged"][q] = name["staged"][q]
  /\ names["staged"][p] \in {NoIno, name["staged"][p]}
  /\ \A i \in Ino : nd[i] # node[i] => i \in touched
  /\ \A i \in Ino : i \in touched /\ node[i] # NoNode => \E t \in Tree : name[t][p] = i
  /\ \A i \in Ino : node[i] # NoNode /\ nd[i] # NoNode =>
       nd[i].type = node[i].type /\ nd[i].data = node[i].data

LEMMA Called ==
  ASSUME FsOK, NEW p \in Path, NEW names, NEW nd, NEW touched,
         Fits(p, names, nd, touched), Commit(names, nd, touched)
  PROVE  Works(p) /\ name' = names
<1> USE DEF Fits
<1>1. /\ FsOK' /\ name' = names
      /\ \A i \in Ino : node'[i] # NoNode =>
           /\ nd[i] # NoNode
           /\ node'[i] = nd[i] \/ node'[i] = Stamped(nd[i], 1)
           /\ i \in touched => node'[i] = Stamped(nd[i], 1)
           /\ node'[i] # nd[i] /\ i \notin touched =>
                \E t \in Tree, r \in Path : \E q \in Parent(r) :
                  name'[t][r] # name[t][r] /\ name'[t][q] = i
  BY Committed
<1>a. \A i \in Ino : node'[i] # NoNode =>
        /\ nd[i] # NoNode
        /\ node'[i] = nd[i] \/ node'[i] = Stamped(nd[i], 1)
        /\ i \in touched => node'[i] = Stamped(nd[i], 1)
  BY <1>1
<1>b. \A i \in Ino : node[i] # NoNode /\ nd[i] # NoNode =>
        nd[i].type = node[i].type /\ (edits' = edits => nd[i].data = node[i].data)
  OBVIOUS
<1>2. Ages
  BY <1>a, <1>b, CommittedAges
<1>3. ASSUME NEW i \in Ino, node[i] # NoNode, node'[i] # NoNode, node'[i] # node[i],
             \A t \in Tree : name[t][p] # i
      PROVE  /\ node'[i] = Stamped(node[i], 1)
             /\ \E t \in Tree, r \in Path : \E q \in Parent(r) :
                  name'[t][r] # name[t][r] /\ name'[t][q] = i
  <2>1. i \notin touched
    BY <1>3
  <2>2. nd[i] = node[i]
    BY <2>1
  <2> QED
    BY <1>1, <1>3, <2>1, <2>2
<1> QED
  BY <1>1, <1>2, <1>3 DEF Works

LEMMA WearingNode ==
  \A n \in Node, f \in Fingerprint :
    /\ Wearing(n, f) \in Node
    /\ Wearing(n, f).type = n.type /\ Wearing(n, f).data = n.data /\ Wearing(n, f).ctime = n.ctime
BY DEF Wearing, Node, Fingerprint


(* apply_metadata(): the installed object gets other metadata.             *)
LEMMA DressTrees ==
  ASSUME FsOK, Current \in View, source \in Tree, Dress, pc' # "failed"
  PROVE  Works(It) /\ name' = name
<1> DEFINE i == name["installed"][It]
           nd == [node EXCEPT ![i] = Wearing(@, Selected)]
<1>1. i # NoIno /\ Commit(name, nd, {i})
  BY DEF Dress, Fail
<1>2. It \in Path /\ Selected \in Fingerprint
  BY Views DEF It, Selected
<1>3. i \in Ino /\ node[i] \in Node /\ node[i] # NoNode
  BY <1>1, <1>2 DEF FsOK, Tree
<1>4. nd \in [Ino -> Node \cup {NoNode}]
  BY <1>2, <1>3, WearingNode DEF FsOK
<1>5. \A j \in Ino : nd[j] = IF j = i THEN Wearing(node[i], Selected) ELSE node[j]
  BY <1>3 DEF FsOK
<1>6. /\ \A j \in Ino : nd[j] # node[j] => j \in {i}
      /\ \A j \in Ino : node[j] # NoNode /\ nd[j] # NoNode =>
           nd[j].type = node[j].type /\ nd[j].data = node[j].data
      /\ \A j \in Ino : node[j] # NoNode => nd[j] # NoNode
  BY <1>2, <1>3, <1>5, WearingNode, NodeAssumption
<1>7. \A j \in Ino : j \in {i} /\ node[j] # NoNode => \E t \in Tree : name[t][It] = j
  BY DEF Tree
<1>8. /\ name \in [Tree -> [Path -> Ino \cup {NoIno}]]
      /\ \A t \in Tree, q \in Path : name[t][q] # NoIno => nd[name[t][q]] # NoNode
      /\ name["staged"][It] \in {NoIno, name["staged"][It]}
  BY <1>6 DEF FsOK
<1> HIDE DEF i, nd
<1>9. Fits(It, name, nd, {i})
  BY <1>4, <1>6, <1>7, <1>8 DEF Fits
<1> QED
  BY <1>1, <1>2, <1>9, Called

(* Nothing happens to the trees.                                           *)
LEMMA IdleTrees ==
  ASSUME FsOK, NEW p \in Path, UNCHANGED <<name, node>>
  PROVE  Works(p)
<1>1. FsOK'
  BY DEF FsOK
<1>2. Ages
  BY DEF Ages
<1> QED
  BY <1>1, <1>2 DEF Works

(* remove_one() and remove_directory_if_empty(): the staged name goes,     *)
(* unless it is that of a directory with something in it.                  *)
LEMMA RetireTrees ==
  ASSUME FsOK, Current \in View, Retire, pc' # "failed"
  PROVE  /\ Works(It)
         /\ name'["installed"] = name["installed"]
         /\ \/ name'["staged"][It] = NoIno /\ Below("staged", It) = {}
            \/ /\ Current.cd.staged.type = "directory" /\ UNCHANGED <<name, node>>
               /\ ~(Present("staged", It) /\ Below("staged", It) = {})
<1> DEFINE s == name["staged"][It]
           names == [name EXCEPT !["staged"][It] = NoIno]
           touched == {s}
<1>1. It \in Path
  BY Views DEF It
<1>2. CASE Present("staged", It) /\ Below("staged", It) = {}
  <2>1. Commit(names, node, touched)
    BY <1>2 DEF Retire
  <2>2. /\ names \in [Tree -> [Path -> Ino \cup {NoIno}]]
        /\ names["installed"] = name["installed"]
        /\ names["staged"][It] = NoIno
        /\ \A q \in Path : q # It => names["staged"][q] = name["staged"][q]
    BY <1>1, Unstaged
  <2>3. \A t \in Tree, q \in Path : names[t][q] # NoIno => node[names[t][q]] # NoNode
    <3> SUFFICES ASSUME NEW t \in Tree, NEW q \in Path, names[t][q] # NoIno
                 PROVE  node[names[t][q]] # NoNode
      OBVIOUS
    <3>1. names[t][q] = name[t][q]
      BY <2>2 DEF Tree
    <3> QED
      BY <3>1 DEF FsOK
  <2>4. node \in [Ino -> Node \cup {NoNode}] /\ names["staged"][It] \in {NoIno, name["staged"][It]}
    BY <2>2 DEF FsOK
  <2>5. \A j \in Ino : j \in touched /\ node[j] # NoNode => \E t \in Tree : name[t][It] = j
    BY DEF Tree
  <2> HIDE DEF names, touched
  <2>6. Fits(It, names, node, touched)
    BY <2>2, <2>3, <2>4, <2>5 DEF Fits
  <2>7. Works(It) /\ name' = names
    BY <1>1, <2>1, <2>6, Called
  <2> QED
    BY <1>2, <2>2, <2>7
<1>3. CASE ~(Present("staged", It) /\ Below("staged", It) = {})
  <2>1. Current.cd.staged.type = "directory" /\ UNCHANGED <<name, node>>
    BY <1>3, Zenon DEF Retire, Fail, fsVars
  <2> QED
    BY <1>1, <1>3, <2>1, IdleTrees
<1> QED
  BY <1>2, <1>3

(* move_replace(): the staged object takes the installed name.             *)
LEMMA RenameTrees ==
  ASSUME FsOK, Current \in View, Rename, pc' # "failed"
  PROVE  /\ Works(It)
         /\ name["staged"][It] # NoIno
         /\ ~IsDirectory("staged", It) /\ ~IsDirectory("installed", It)
         /\ name'["installed"][It] = name["staged"][It]
         /\ \A q \in Path : q # It => name'["installed"][q] = name["installed"][q]
         /\ name["installed"][It] # name["staged"][It] => name'["staged"][It] = NoIno
<1> DEFINE i == name["installed"][It]
           s == name["staged"][It]
           names == IF i = s THEN name
                    ELSE [name EXCEPT !["installed"][It] = s, !["staged"][It] = NoIno]
           touched == IF i = s THEN {} ELSE {i, s}
<1>1. /\ s # NoIno /\ ~IsDirectory("staged", It) /\ ~IsDirectory("installed", It)
      /\ Commit(names, node, touched)
  BY Zenon DEF Rename, Fail
<1>2. It \in Path
  BY Views DEF It
<1>3. s \in Ino /\ node[s] # NoNode
  BY <1>1, <1>2 DEF FsOK, Tree
<1>4. /\ names \in [Tree -> [Path -> Ino \cup {NoIno}]]
      /\ names["installed"][It] = s
      /\ \A q \in Path : q # It => names["installed"][q] = name["installed"][q]
      /\ \A q \in Path : q # It => names["staged"][q] = name["staged"][q]
      /\ names["staged"][It] \in {NoIno, name["staged"][It]}
      /\ i # s => names["staged"][It] = NoIno
  BY <1>2, <1>3 DEF FsOK, Tree
<1>5. \A t \in Tree, q \in Path : names[t][q] # NoIno => node[names[t][q]] # NoNode
  <2> SUFFICES ASSUME NEW t \in Tree, NEW q \in Path, names[t][q] # NoIno
               PROVE  node[names[t][q]] # NoNode
    OBVIOUS
  <2>1. names[t][q] \in {s, name[t][q]}
    BY <1>4 DEF Tree
  <2>2. names[t][q] = name[t][q] => node[names[t][q]] # NoNode
    BY DEF FsOK
  <2> QED
    BY <2>1, <2>2, <1>3
<1>6. \A j \in Ino : j \in touched /\ node[j] # NoNode => \E t \in Tree : name[t][It] = j
  BY DEF Tree
<1>7. node \in [Ino -> Node \cup {NoNode}]
  BY DEF FsOK
<1> HIDE DEF names, touched
<1>8. Fits(It, names, node, touched)
  BY <1>4, <1>5, <1>6, <1>7 DEF Fits
<1>9. Works(It) /\ name' = names
  BY <1>1, <1>2, <1>8, Called
<1> QED
  BY <1>1, <1>4, <1>9

(* A new object takes an installed name.                                   *)
LEMMA NewTrees ==
  ASSUME FsOK, NEW p \in Path, NEW q \in Path, NEW new \in Unused, NEW n \in Node,
         NEW touched, new \in touched,
         \A j \in Ino : j \in touched => j = new \/ j = name["installed"][p],
         Commit([name EXCEPT !["installed"][q] = new], [node EXCEPT ![new] = n], touched)
  PROVE  /\ Works(p)
         /\ name'["staged"] = name["staged"]
         /\ name'["installed"][q] = new
         /\ \A r \in Path : r # q => name'["installed"][r] = name["installed"][r]
         /\ node'[new] = Stamped(n, 1)
<1> DEFINE names == [name EXCEPT !["installed"][q] = new]
           nd == [node EXCEPT ![new] = n]
<1>1. Commit(names, nd, touched)
  OBVIOUS
<1>2. new \in Ino /\ new # NoIno /\ node[new] = NoNode /\ n # NoNode
      /\ \A t \in Tree, r \in Path : name[t][r] # new
  BY FreeMeansFree, NodeAssumption
<1>3. /\ names \in [Tree -> [Path -> Ino \cup {NoIno}]]
      /\ names["staged"] = name["staged"]
      /\ names["installed"][q] = new
      /\ \A r \in Path : r # q => names["installed"][r] = name["installed"][r]
  BY <1>2 DEF FsOK, Tree
<1>4. nd \in [Ino -> Node \cup {NoNode}] /\ \A j \in Ino : nd[j] = IF j = new THEN n ELSE node[j]
  BY <1>2 DEF FsOK
<1>5. /\ \A j \in Ino : nd[j] # node[j] => j \in touched
      /\ \A j \in Ino : node[j] # NoNode /\ nd[j] # NoNode =>
           nd[j].type = node[j].type /\ nd[j].data = node[j].data
  BY <1>2, <1>4
<1>6. \A t \in Tree, r \in Path : names[t][r] # NoIno => nd[names[t][r]] # NoNode
  <2> SUFFICES ASSUME NEW t \in Tree, NEW r \in Path, names[t][r] # NoIno
               PROVE  nd[names[t][r]] # NoNode
    OBVIOUS
  <2>1. names[t][r] = new \/ names[t][r] = name[t][r]
    BY <1>3 DEF Tree
  <2>2. names[t][r] = name[t][r] => name[t][r] \in Ino /\ node[name[t][r]] # NoNode
    BY DEF FsOK
  <2> QED
    BY <2>1, <2>2, <1>2, <1>4
<1>7. \A j \in Ino : j \in touched /\ node[j] # NoNode => \E t \in Tree : name[t][p] = j
  BY <1>2 DEF Tree
<1>8. /\ names["staged"][p] \in {NoIno, name["staged"][p]}
      /\ \A r \in Path : r # p => names["staged"][r] = name["staged"][r]
  BY <1>3
<1> HIDE DEF names, nd
<1>9. Fits(p, names, nd, touched)
  BY <1>3, <1>4, <1>5, <1>6, <1>7, <1>8 DEF Fits
<1>10. Works(p) /\ name' = names
  BY <1>1, <1>9, Called
<1>11. node'[new] # NoNode
  <2>1. FsOK' /\ name'["installed"][q] = new
    BY <1>3, <1>10 DEF Works
  <2> QED
    BY <2>1, <1>2 DEF FsOK, Tree
<1>12. \A i \in Ino : node'[i] # NoNode /\ i \in touched => node'[i] = Stamped(nd[i], 1)
  BY <1>1, <1>3, <1>4, <1>6, Committed
<1> QED
  BY <1>2, <1>3, <1>4, <1>8, <1>10, <1>11, <1>12

(* write_merged_file(): a new inode takes the installed name.              *)
LEMMA PublishTrees ==
  ASSUME FsOK, Current \in View, source \in Tree, copy \in Data, Publish, pc' # "failed"
  PROVE  /\ Works(It)
         /\ ~IsDirectory("installed", It)
         /\ name'["staged"] = name["staged"]
         /\ name'["installed"][It] \in Unused
         /\ \A q \in Path : q # It => name'["installed"][q] = name["installed"][q]
         /\ node'[name'["installed"][It]].type = "regular"
         /\ node'[name'["installed"][It]].data = copy
<1> DEFINE new == CHOOSE i \in Unused : TRUE
           n == [type |-> "regular", data |-> copy, mode |-> Selected.mode,
                 owner |-> Selected.owner, ctime |-> 0]
<1>1. /\ ~IsDirectory("installed", It)
      /\ Commit([name EXCEPT !["installed"][It] = new], [node EXCEPT ![new] = n],
                {new, name["installed"][It]})
  BY Zenon DEF Publish, Fail
<1>2. It \in Path /\ Selected \in Fingerprint
  BY Views DEF It, Selected
<1>3. new \in Unused
  BY FreeInode
<1>4. n \in Node /\ n.type = "regular" /\ n.data = copy
  BY <1>2 DEF Node, NodeType, Fingerprint
<1> HIDE DEF new, n
<1>5. /\ new \in {new, name["installed"][It]}
      /\ \A j \in Ino : j \in {new, name["installed"][It]} => j = new \/ j = name["installed"][It]
  OBVIOUS
<1>6. /\ Works(It) /\ name'["staged"] = name["staged"] /\ name'["installed"][It] = new
      /\ \A q \in Path : q # It => name'["installed"][q] = name["installed"][q]
      /\ node'[new] = Stamped(n, 1)
  BY <1>1, <1>2, <1>3, <1>4, <1>5, NewTrees
<1>7. Stamped(n, 1).type = n.type /\ Stamped(n, 1).data = n.data
  BY <1>4, StampedNode
<1> QED
  BY <1>1, <1>3, <1>4, <1>6, <1>7

(* ensure_parent(): one missing directory on the way to the destination    *)
(* of a relic is made where everything above it is a directory.            *)
LEMMA MakeTrees ==
  ASSUME FsOK, Current \in View, MakeParent, pc' # "failed", call.to \in Path
  PROVE  /\ Works(It)
         /\ name'["staged"] = name["staged"]
         /\ \E q \in Path :
              /\ ~Present("installed", q) /\ \A r \in Above[q] : IsDirectory("installed", r)
              /\ name'["installed"][q] \in Unused
              /\ \A r \in Path : r # q => name'["installed"][r] = name["installed"][r]
              /\ node'[name'["installed"][q]].type = "directory"
<1> DEFINE new == CHOOSE i \in Unused : TRUE
           made == [type |-> "directory", data |-> [k \in Block |-> Nul], mode |-> LinkMode,
                    owner |-> ZeroOwner, ctime |-> 0]
<1>1. ~Unreachable("installed", call.to)
      /\ \E q \in MissingParents :
           /\ Above[q] \cap MissingParents = {}
           /\ Commit([name EXCEPT !["installed"][q] = new], [node EXCEPT ![new] = made], {new})
  BY Zenon DEF MakeParent, Fail
<1>2. It \in Path
  BY Views DEF It
<1>3. new \in Unused
  BY FreeInode
<1>4. made \in Node /\ made.type = "directory"
  BY ByteAssumption, OwnerAssumption, ModeAssumption DEF Node, NodeType, Data
<1> HIDE DEF new, made
<1>5. PICK q \in MissingParents :
        /\ Above[q] \cap MissingParents = {}
        /\ Commit([name EXCEPT !["installed"][q] = new], [node EXCEPT ![new] = made], {new})
  BY <1>1
<1>6. q \in Above[call.to] /\ q \in Path /\ ~Present("installed", q)
  BY PathAssumption DEF MissingParents
<1>7. \A r \in Above[q] : IsDirectory("installed", r)
  <2> TAKE r \in Above[q]
  <2>1. r \in Above[call.to] /\ r \notin MissingParents
    BY <1>5, <1>6, PathAssumption
  <2> QED
    BY <1>1, <2>1 DEF MissingParents, Unreachable
<1>8. new \in {new} /\ \A j \in Ino : j \in {new} => j = new \/ j = name["installed"][It]
  OBVIOUS
<1>9. Works(It) /\ name'["staged"] = name["staged"] /\ name'["installed"][q] = new
      /\ (\A r \in Path : r # q => name'["installed"][r] = name["installed"][r])
      /\ node'[new] = Stamped(made, 1)
  BY <1>2, <1>3, <1>4, <1>5, <1>6, <1>8, NewTrees
<1>10. Stamped(made, 1).type = made.type
  BY <1>4, StampedNode
<1> QED
  BY <1>3, <1>4, <1>6, <1>7, <1>9, <1>10


(* move_noreplace(): the staged object takes an installed name nothing is  *)
(* at.                                                                     *)
LEMMA MoveTrees ==
  ASSUME FsOK, Current \in View, Move, pc' # "failed", call.to \in Path
  PROVE  /\ Works(It)
         /\ name["staged"][It] # NoIno /\ ~Present("installed", call.to)
         /\ \A r \in Above[call.to] : IsDirectory("installed", r)
         /\ name'["staged"][It] = NoIno
         /\ name'["installed"][call.to] = name["staged"][It]
         /\ \A q \in Path : q # call.to => name'["installed"][q] = name["installed"][q]
<1> DEFINE s == name["staged"][It]
           to == call.to
           names == [name EXCEPT !["staged"][It] = NoIno, !["installed"][to] = s]
           touched == {s}
<1>1. /\ s # NoIno /\ ~Unreachable("installed", to) /\ ~Present("installed", to)
      /\ Commit(names, node, touched)
  BY Zenon DEF Move, Fail
<1>2. It \in Path /\ MissingParents = {}
  BY Views DEF It, Move
<1>3. s \in Ino /\ node[s] # NoNode
  BY <1>1, <1>2 DEF FsOK, Tree
<1>4. /\ names \in [Tree -> [Path -> Ino \cup {NoIno}]]
      /\ names["installed"][to] = s /\ names["staged"][It] = NoIno
      /\ \A q \in Path : q # to => names["installed"][q] = name["installed"][q]
      /\ \A q \in Path : q # It => names["staged"][q] = name["staged"][q]
  BY <1>2, <1>3 DEF FsOK, Tree
<1>5. \A t \in Tree, q \in Path : names[t][q] # NoIno => node[names[t][q]] # NoNode
  <2> SUFFICES ASSUME NEW t \in Tree, NEW q \in Path, names[t][q] # NoIno
               PROVE  node[names[t][q]] # NoNode
    OBVIOUS
  <2>1. names[t][q] \in {s, name[t][q]}
    BY <1>4 DEF Tree
  <2>2. names[t][q] = name[t][q] => node[names[t][q]] # NoNode
    BY DEF FsOK
  <2> QED
    BY <2>1, <2>2, <1>3
<1>6. \A j \in Ino : j \in touched /\ node[j] # NoNode => \E t \in Tree : name[t][It] = j
  BY DEF Tree
<1>7. node \in [Ino -> Node \cup {NoNode}]
  BY DEF FsOK
<1>8. \A r \in Above[to] : IsDirectory("installed", r)
  BY <1>1, <1>2 DEF MissingParents, Unreachable
<1> HIDE DEF names, touched
<1>9. Fits(It, names, node, touched)
  BY <1>4, <1>5, <1>6, <1>7 DEF Fits
<1>10. Works(It) /\ name' = names
  BY <1>1, <1>2, <1>9, Called
<1> QED
  BY <1>1, <1>4, <1>8, <1>10

(* cleanup_empty_directories(): one listed name goes, if nothing is below  *)
(* it.                                                                     *)
LEMMA SweepTrees ==
  ASSUME FsOK, Sweep, sweep \in Seq(Path)
  PROVE  /\ FsOK' /\ Ages
         /\ Head(sweep) \in Path
         /\ name'["installed"] = name["installed"]
         /\ \A q \in Path : q # Head(sweep) => name'["staged"][q] = name["staged"][q]
         /\ name'["staged"][Head(sweep)] \in {NoIno, name["staged"][Head(sweep)]}
         /\ Present("staged", Head(sweep)) /\ Below("staged", Head(sweep)) = {} =>
              name'["staged"][Head(sweep)] = NoIno
         /\ ~(Present("staged", Head(sweep)) /\ Below("staged", Head(sweep)) = {}) =>
              UNCHANGED <<name, node>>
<1>1. sweep # <<>> /\ Head(sweep) \in Path
  BY DEF Sweep
<1>2. PICK p \in Path : p = Head(sweep)
  BY <1>1
<1>3. IF Present("staged", p) /\ Below("staged", p) = {}
      THEN Commit([name EXCEPT !["staged"][p] = NoIno], node, {name["staged"][p]})
      ELSE UNCHANGED <<name, node>>
  BY <1>2, Zenon DEF Sweep, fsVars
<1>4. CASE Present("staged", p) /\ Below("staged", p) = {}
  <2> DEFINE names == [name EXCEPT !["staged"][p] = NoIno]
             touched == {name["staged"][p]}
  <2>1. Commit(names, node, touched)
    BY <1>3, <1>4
  <2>2. /\ names \in [Tree -> [Path -> Ino \cup {NoIno}]]
        /\ names["installed"] = name["installed"] /\ names["staged"][p] = NoIno
        /\ \A q \in Path : q # p => names["staged"][q] = name["staged"][q]
    BY Unstaged
  <2>3. \A t \in Tree, q \in Path : names[t][q] # NoIno => node[names[t][q]] # NoNode
    <3> SUFFICES ASSUME NEW t \in Tree, NEW q \in Path, names[t][q] # NoIno
                 PROVE  node[names[t][q]] # NoNode
      OBVIOUS
    <3>1. names[t][q] = name[t][q]
      BY <2>2 DEF Tree
    <3> QED
      BY <3>1 DEF FsOK
  <2>4. node \in [Ino -> Node \cup {NoNode}] /\ names["staged"][p] \in {NoIno, name["staged"][p]}
    BY <2>2 DEF FsOK
  <2>5. \A j \in Ino : j \in touched /\ node[j] # NoNode => \E t \in Tree : name[t][p] = j
    BY DEF Tree
  <2> HIDE DEF names, touched
  <2>6. Fits(p, names, node, touched)
    BY <2>2, <2>3, <2>4, <2>5 DEF Fits
  <2>7. Works(p) /\ name' = names
    BY <2>1, <2>6, Called
  <2> QED
    BY <1>2, <1>4, <2>2, <2>7 DEF Works
<1>5. CASE ~(Present("staged", p) /\ Below("staged", p) = {})
  <2>1. UNCHANGED <<name, node>>
    BY <1>3, <1>5
  <2>2. FsOK'
    BY <2>1 DEF FsOK
  <2>3. Ages
    BY <2>1 DEF Ages
  <2> QED
    BY <1>2, <1>5, <2>1, <2>2, <2>3
<1> QED
  BY <1>4, <1>5

(* Another process saves a file in place.                                  *)
LEMMA WriteTrees ==
  ASSUME FsOK, NEW t \in Tree, NEW p \in Path, NEW d \in Data, OtherWrites(t, p, d), edits \in Nat
  PROVE  FsOK' /\ Ages /\ name' = name
<1> DEFINE i == name[t][p]
           nd == [node EXCEPT ![i].data = d]
<1>1. Commit(name, nd, {i}) /\ edits' # edits
  BY DEF OtherWrites, Meanwhile
<1>2. i \in Ino /\ node[i] \in Node /\ node[i] # NoNode
  BY DEF OtherWrites, Present, FsOK
<1>3. [node[i] EXCEPT !.data = d] \in Node /\ [node[i] EXCEPT !.data = d] # NoNode
      /\ [node[i] EXCEPT !.data = d].type = node[i].type
  BY <1>2, NodeAssumption DEF Node
<1>4. nd \in [Ino -> Node \cup {NoNode}]
      /\ \A j \in Ino : nd[j] = IF j = i THEN [node[i] EXCEPT !.data = d] ELSE node[j]
  BY <1>2, <1>3 DEF FsOK
<1> HIDE DEF nd
<1>5. /\ \A j \in Ino : nd[j] # node[j] => j \in {i}
      /\ \A j \in Ino : node[j] # NoNode /\ nd[j] # NoNode =>
           nd[j].type = node[j].type /\ (edits' = edits => nd[j].data = node[j].data)
      /\ \A j \in Ino : node[j] # NoNode => nd[j] # NoNode
  BY <1>1, <1>3, <1>4
<1>6. /\ name \in [Tree -> [Path -> Ino \cup {NoIno}]]
      /\ \A u \in Tree, q \in Path : name[u][q] # NoIno => nd[name[u][q]] # NoNode
  BY <1>5 DEF FsOK
<1>7. /\ FsOK' /\ name' = name
      /\ \A j \in Ino : node'[j] # NoNode =>
           /\ nd[j] # NoNode
           /\ node'[j] = nd[j] \/ node'[j] = Stamped(nd[j], 1)
           /\ j \in {i} => node'[j] = Stamped(nd[j], 1)
  BY <1>1, <1>4, <1>6, Committed
<1>8. Ages
  BY <1>4, <1>5, <1>7, CommittedAges
<1> QED
  BY <1>7, <1>8

(* Another process puts a file at a staged name.                           *)
LEMMA StageTrees ==
  ASSUME FsOK, NEW p \in Path, NEW n \in InitNode, OtherStages(p, n)
  PROVE  /\ FsOK' /\ Ages
         /\ name'["installed"] = name["installed"]
         /\ name'["staged"][p] \in Unused
         /\ \A q \in Path : q # p => name'["staged"][q] = name["staged"][q]
         /\ node'[name'["staged"][p]] # NoNode
         /\ node'[name'["staged"][p]].type = "regular"
         /\ arrived' = arrived \cup {p}
<1> DEFINE new == CHOOSE i \in Unused : TRUE
           names == [name EXCEPT !["staged"][p] = new]
           nd == [node EXCEPT ![new] = n]
<1>1. Commit(names, nd, {new}) /\ n.type = "regular" /\ arrived' = arrived \cup {p}
  BY DEF OtherStages
<1>2. n \in Node /\ n # NoNode
  BY OriginalAssumption, NodeAssumption
<1>3. new \in Unused /\ new \in Ino /\ new # NoIno /\ node[new] = NoNode
      /\ \A t \in Tree, q \in Path : name[t][q] # new
  BY FreeInode, FreeMeansFree
<1> HIDE DEF new
<1>4. /\ names \in [Tree -> [Path -> Ino \cup {NoIno}]]
      /\ names["installed"] = name["installed"] /\ names["staged"][p] = new
      /\ \A q \in Path : q # p => names["staged"][q] = name["staged"][q]
  BY <1>3 DEF FsOK, Tree
<1>5. nd \in [Ino -> Node \cup {NoNode}] /\ \A j \in Ino : nd[j] = IF j = new THEN n ELSE node[j]
  BY <1>2, <1>3 DEF FsOK
<1> HIDE DEF names, nd
<1>6. /\ \A j \in Ino : nd[j] # node[j] => j \in {new}
      /\ \A j \in Ino : node[j] # NoNode /\ nd[j] # NoNode =>
           nd[j].type = node[j].type /\ (edits' = edits => nd[j].data = node[j].data)
  BY <1>3, <1>5
<1>7. \A t \in Tree, q \in Path : names[t][q] # NoIno => nd[names[t][q]] # NoNode
  <2> SUFFICES ASSUME NEW t \in Tree, NEW q \in Path, names[t][q] # NoIno
               PROVE  nd[names[t][q]] # NoNode
    OBVIOUS
  <2>1. names[t][q] \in {new, name[t][q]}
    BY <1>4 DEF Tree
  <2>2. names[t][q] = name[t][q] => name[t][q] \in Ino /\ node[name[t][q]] # NoNode
    BY DEF FsOK
  <2> QED
    BY <2>1, <2>2, <1>2, <1>3, <1>5
<1>8. /\ FsOK' /\ name' = names
      /\ \A j \in Ino : node'[j] # NoNode =>
           /\ nd[j] # NoNode
           /\ node'[j] = nd[j] \/ node'[j] = Stamped(nd[j], 1)
           /\ j \in {new} => node'[j] = Stamped(nd[j], 1)
  BY <1>1, <1>4, <1>5, <1>7, Committed
<1>9. Ages
  BY <1>5, <1>6, <1>8, CommittedAges
<1>10. name'["staged"][p] = new /\ node'[new] # NoNode
  BY <1>3, <1>4, <1>8 DEF FsOK, Tree
<1>11. node'[new].type = "regular"
  BY <1>1, <1>2, <1>3, <1>5, <1>8, <1>10, StampedNode
<1> QED
  BY <1>1, <1>3, <1>4, <1>8, <1>9, <1>10, <1>11

(* scan() only reads; the model restarts the times.                        *)
LEMMA ScanTrees ==
  ASSUME FsOK, name' = name, node' = [i \in Ino |-> Stamped(node[i], 0)]
  PROVE  /\ FsOK'
         /\ \A i \in Ino : node[i] # NoNode =>
              node'[i] = Stamped(node[i], 0) /\ node'[i] # NoNode
              /\ node'[i].type = node[i].type /\ node'[i].data = node[i].data /\ node'[i].ctime = 0
              /\ node'[i].mode = node[i].mode /\ node'[i].owner = node[i].owner
<1>1. \A i \in Ino : IF node[i] = NoNode THEN node'[i] = NoNode
                     ELSE /\ node'[i] = Stamped(node[i], 0) /\ node'[i] # NoNode /\ node'[i] \in Node
                          /\ node'[i].type = node[i].type /\ node'[i].data = node[i].data
                          /\ node'[i].mode = node[i].mode /\ node'[i].owner = node[i].owner
                          /\ node'[i].ctime = 0
  BY StampedNode DEF FsOK
<1>2. node' \in [Ino -> Node \cup {NoNode}]
  BY <1>1
<1> QED
  BY <1>1, <1>2 DEF FsOK

------------------------------------------------------------------------------
(* What the scan makes.                                                    *)

(* Names that share an inode are names of a regular file.                  *)
Shared ==
  \A t, u \in Tree : \A p, q \in Path :
    name[t][p] = name[u][q] /\ name[t][p] # NoIno =>
      (t = u /\ p = q) \/ node[name[t][p]].type = "regular"

(* A fingerprint with the time of the scan.                                *)
LEMMA Retimed ==
  ASSUME NEW f \in Fingerprint
  PROVE  LET z == [f EXCEPT !.ctime = 0]
         IN /\ z \in Fingerprint /\ z.exists = f.exists /\ z.inode = f.inode /\ z.type = f.type
            /\ z.mode = f.mode /\ z.owner = f.owner /\ z.ctime = 0
BY DEF Fingerprint

LEMMA MissingFingerprint == Missing \in Fingerprint /\ [Missing EXCEPT !.ctime = 0] = Missing
<1>1. Missing \in Fingerprint
  BY OwnerAssumption, ModeAssumption DEF Missing, Fingerprint
<1>2. \A f \in Fingerprint :
        f = [exists |-> f.exists, inode |-> f.inode, type |-> f.type,
             mode |-> f.mode, owner |-> f.owner, ctime |-> f.ctime]
  BY DEF Fingerprint
<1> DEFINE z == [Missing EXCEPT !.ctime = 0]
<1>3. /\ z \in Fingerprint /\ z.exists = Missing.exists /\ z.inode = Missing.inode
      /\ z.type = Missing.type /\ z.mode = Missing.mode /\ z.owner = Missing.owner
      /\ z.ctime = Missing.ctime
  <2>1. Missing.ctime = 0
    BY DEF Missing
  <2> QED
    BY <1>1, <2>1, Retimed
<1> HIDE DEF z
<1>4. z = Missing
  BY <1>1, <1>2, <1>3
<1> QED
  BY <1>1, <1>4 DEF z

LEMMA SeenFingerprint ==
  ASSUME FsOK, NEW t \in Tree, NEW p \in Path
  PROVE  /\ [Sees(t, p) EXCEPT !.ctime = 0] \in Fingerprint
         /\ IF Present(t, p)
            THEN /\ [Sees(t, p) EXCEPT !.ctime = 0].exists
                 /\ [Sees(t, p) EXCEPT !.ctime = 0].inode = name[t][p]
                 /\ name[t][p] \in Ino /\ name[t][p] # NoIno
                 /\ At(t, p) \in Node /\ At(t, p) # NoNode
                 /\ [Sees(t, p) EXCEPT !.ctime = 0].type = At(t, p).type
                 /\ [Sees(t, p) EXCEPT !.ctime = 0].mode = At(t, p).mode
                 /\ [Sees(t, p) EXCEPT !.ctime = 0].owner = At(t, p).owner
                 /\ [Sees(t, p) EXCEPT !.ctime = 0].ctime = 0
            ELSE [Sees(t, p) EXCEPT !.ctime = 0] = Missing
<1>1. name[t][p] \in Ino \cup {NoIno}
  BY DEF FsOK
<1>2. CASE Present(t, p)
  <2>1. name[t][p] \in Ino /\ name[t][p] # NoIno /\ At(t, p) \in Node /\ At(t, p) # NoNode
    BY <1>1, <1>2 DEF FsOK, Present, At
  <2>2. Sees(t, p) = [exists |-> TRUE, inode |-> name[t][p], type |-> At(t, p).type,
                      mode |-> At(t, p).mode, owner |-> At(t, p).owner, ctime |-> At(t, p).ctime]
    BY <2>1 DEF Sees, Observe, At
  <2>3. /\ Sees(t, p) \in Fingerprint
        /\ Sees(t, p).exists /\ Sees(t, p).inode = name[t][p] /\ Sees(t, p).type = At(t, p).type
        /\ Sees(t, p).mode = At(t, p).mode /\ Sees(t, p).owner = At(t, p).owner
    BY <2>1, <2>2 DEF Fingerprint, Node
  <2> QED
    BY <1>2, <2>1, <2>3, Retimed
<1>3. CASE ~Present(t, p)
  <2>1. Sees(t, p) = Missing
    BY <1>3 DEF Present, Sees, Observe
  <2> QED
    BY <1>3, <2>1, MissingFingerprint
<1> QED
  BY <1>2, <1>3

(* The candidate of a staged object, field by field.                       *)
LEMMA ScannedFields ==
  ASSUME FsOK, NEW p \in Path
  PROVE  LET v == Scanned(p)
             i == [Sees("installed", p) EXCEPT !.ctime = 0]
             s == [Sees("staged", p) EXCEPT !.ctime = 0]
         IN /\ v \in View /\ v.path = p
            /\ v.cd.installed = i /\ v.cd.staged = s
            /\ v.cd["installed"] = i /\ v.cd["staged"] = s
            /\ \A t \in Tree : v.was[t] = IF Present(t, p) THEN Stamped(At(t, p), 0) ELSE NoNode
            /\ v.cd.equal <=>
                 \/ /\ i.type = "regular" /\ s.type = "regular"
                    /\ At("installed", p).data = At("staged", p).data
                 \/ i.type = "directory" /\ s.type = "directory"
            /\ v.alone <=> \A t, u \in Tree : \A q \in Path :
                             name[t][p] = name[u][q] => <<t, p>> = <<u, q>> \/ ~Present(t, p)
<1> DEFINE v == Scanned(p)
           i == [Sees("installed", p) EXCEPT !.ctime = 0]
           s == [Sees("staged", p) EXCEPT !.ctime = 0]
           e == \/ /\ i.type = "regular" /\ s.type = "regular"
                   /\ At("installed", p).data = At("staged", p).data
                \/ i.type = "directory" /\ s.type = "directory"
           x == /\ i.type = "regular" /\ s.type = "regular"
                /\ \A t \in Tree : TextData(At(t, p).data)
           a == \A t, u \in Tree : \A q \in Path :
                  name[t][p] = name[u][q] => <<t, p>> = <<u, q>> \/ ~Present(t, p)
           w == [t \in Tree |-> IF Present(t, p) THEN Stamped(At(t, p), 0) ELSE NoNode]
<1>1. i \in Fingerprint /\ s \in Fingerprint
  BY SeenFingerprint DEF Tree
<1>2. w \in [Tree -> Node \cup {NoNode}]
  <2>1. \A t \in Tree : Present(t, p) => Stamped(At(t, p), 0) \in Node
    BY SeenFingerprint, StampedNode
  <2> QED
    BY <2>1
<1>3. e \in BOOLEAN /\ x \in BOOLEAN /\ a \in BOOLEAN
  OBVIOUS
<1>4. v = [path |-> p, cd |-> [installed |-> i, staged |-> s, equal |-> e, text |-> x],
           was |-> w, alone |-> a]
  <2>1. e = (\/ (i.type = "regular" /\ s.type = "regular") /\ At("installed", p).data = At("staged", p).data
             \/ i.type = "directory" /\ s.type = "directory")
    OBVIOUS
  <2>2. x = ((i.type = "regular" /\ s.type = "regular") /\ \A t \in Tree : TextData(At(t, p).data))
    OBVIOUS
  <2> QED
    BY <2>1, <2>2, Zenon DEF Scanned
<1> HIDE DEF i, s, e, x, a, w, v
<1>5. /\ v.path = p /\ v.was = w /\ v.alone = a
      /\ v.cd = [installed |-> i, staged |-> s, equal |-> e, text |-> x]
  BY <1>4
<1>6. /\ v.cd.installed = i /\ v.cd.staged = s /\ v.cd.equal = e /\ v.cd.text = x
      /\ v.cd["installed"] = i /\ v.cd["staged"] = s
  BY <1>5
<1>7. v \in View
  BY <1>1, <1>2, <1>3, <1>4 DEF View, CandidateRecord
<1> QED
  BY <1>5, <1>6, <1>7 DEF i, s, e, a, w, v

LEMMA ScannedSnapshot ==
  ASSUME FsOK, Shared, NEW p \in Path, Present("staged", p), ~Structural(p)
  PROVE  Snapshot(Scanned(p))
<1> DEFINE v == Scanned(p)
<1>1. \A t \in Tree : v.cd[t] = [Sees(t, p) EXCEPT !.ctime = 0]
  BY ScannedFields DEF Tree
<1>2. \A t \in Tree : v.was[t] = IF Present(t, p) THEN Stamped(At(t, p), 0) ELSE NoNode
  BY ScannedFields
<1>a. v.cd.installed = [Sees("installed", p) EXCEPT !.ctime = 0]
  BY ScannedFields
<1>b. v.cd.staged = [Sees("staged", p) EXCEPT !.ctime = 0]
  BY ScannedFields
<1>c. v.cd.equal <=>
        \/ /\ [Sees("installed", p) EXCEPT !.ctime = 0].type = "regular"
           /\ [Sees("staged", p) EXCEPT !.ctime = 0].type = "regular"
           /\ At("installed", p).data = At("staged", p).data
        \/ /\ [Sees("installed", p) EXCEPT !.ctime = 0].type = "directory"
           /\ [Sees("staged", p) EXCEPT !.ctime = 0].type = "directory"
  BY ScannedFields, Zenon
<1>3. v.cd.equal <=>
        \/ /\ v.cd.installed.type = "regular" /\ v.cd.staged.type = "regular"
           /\ At("installed", p).data = At("staged", p).data
        \/ v.cd.installed.type = "directory" /\ v.cd.staged.type = "directory"
  BY <1>a, <1>b, <1>c, Zenon
<1>4. v.cd["installed"] = v.cd.installed /\ v.cd["staged"] = v.cd.staged
  BY ScannedFields
<1> HIDE DEF v
<1>5. \A t \in Tree : Present(t, p) =>
        /\ name[t][p] \in Ino /\ At(t, p) \in Node
        /\ v.cd[t].exists /\ v.cd[t].inode = name[t][p] /\ v.cd[t].ctime = 0
        /\ v.cd[t].type = At(t, p).type
        /\ v.was[t] # NoNode /\ v.was[t].type = At(t, p).type
        /\ v.was[t].data = At(t, p).data /\ v.was[t].ctime = 0
  <2> SUFFICES ASSUME NEW t \in Tree, Present(t, p)
               PROVE  /\ name[t][p] \in Ino /\ At(t, p) \in Node
                      /\ v.cd[t].exists /\ v.cd[t].inode = name[t][p] /\ v.cd[t].ctime = 0
                      /\ v.cd[t].type = At(t, p).type
                      /\ v.was[t] # NoNode /\ v.was[t].type = At(t, p).type
                      /\ v.was[t].data = At(t, p).data /\ v.was[t].ctime = 0
    OBVIOUS
  <2> DEFINE z == [Sees(t, p) EXCEPT !.ctime = 0]
  <2>1. /\ name[t][p] \in Ino /\ At(t, p) \in Node
        /\ z.exists /\ z.inode = name[t][p] /\ z.ctime = 0 /\ z.type = At(t, p).type
    BY SeenFingerprint
  <2>2. v.cd[t] = z /\ v.was[t] = Stamped(At(t, p), 0)
    BY <1>1, <1>2
  <2> HIDE DEF z
  <2> QED
    BY <2>1, <2>2, StampedNode
<1>6. \A t \in Tree : ~Present(t, p) => v.was[t] = NoNode /\ v.cd[t] = Missing
  BY <1>1, <1>2, SeenFingerprint
<1>7. v.cd.staged.type = "directory" => v.was["installed"] # NoNode
  BY <1>4, <1>5 DEF Structural, IsDirectory, Tree
<1>8. v.cd.equal =>
       \/ /\ v.was["installed"] # NoNode /\ v.cd.installed.type = "regular" /\ v.cd.staged.type = "regular"
          /\ v.was["installed"].data = v.was["staged"].data
       \/ v.cd.installed.type = "directory" /\ v.cd.staged.type = "directory"
  BY <1>3, <1>4, <1>5, <1>6 DEF Tree, Missing
<1>9. v.cd.installed.inode = v.cd.staged.inode => v.cd.equal
  <2>1. CASE Present("installed", p)
    <3> SUFFICES ASSUME v.cd.installed.inode = v.cd.staged.inode
                 PROVE  v.cd.equal
      OBVIOUS
    <3>1. name["installed"][p] = name["staged"][p]
      BY <1>4, <1>5, <2>1 DEF Tree
    <3>2. At("installed", p) = At("staged", p)
      BY <3>1 DEF At
    <3>3. At("installed", p).type = "regular"
      BY <3>1, <2>1 DEF Shared, Tree, Present, At
    <3> QED
      BY <1>3, <1>4, <1>5, <2>1, <3>2, <3>3 DEF Tree
  <2>2. CASE ~Present("installed", p)
    <3>1. v.cd.installed.inode = NoIno /\ v.cd.staged.inode # NoIno
      BY <1>4, <1>5, <1>6, <2>2, InoAssumption DEF Tree, Missing
    <3> QED
      BY <3>1
  <2> QED
    BY <2>1, <2>2
<1>10. \A t \in Tree :
         IF v.was[t] = NoNode THEN v.cd[t] = Missing
         ELSE /\ v.cd[t].exists /\ v.cd[t].inode \in Ino /\ v.cd[t].ctime = 0
              /\ v.cd[t].type = v.was[t].type /\ v.was[t].ctime = 0
  BY <1>5, <1>6
<1>11. v.was["staged"] # NoNode
  BY <1>5 DEF Tree
<1>12. Snapshot(v)
  BY <1>7, <1>8, <1>9, <1>10, <1>11 DEF Snapshot
<1> QED
  BY <1>12 DEF v
(* An element taken off a sequence.                                        *)
LEMMA Tails ==
  ASSUME NEW S, NEW s \in Seq(S), s # <<>>
  PROVE  /\ Head(s) \in S /\ Head(s) = s[1] /\ 1 \in DOMAIN s
         /\ Tail(s) \in Seq(S) /\ Len(s) \in Nat \ {0} /\ Len(Tail(s)) = Len(s) - 1
         /\ DOMAIN s = 1 .. Len(s) /\ DOMAIN Tail(s) = 1 .. Len(Tail(s))
         /\ \A k \in DOMAIN Tail(s) : k + 1 \in DOMAIN s /\ Tail(s)[k] = s[k + 1]
         /\ \A k \in DOMAIN s : k # 1 => k - 1 \in DOMAIN Tail(s) /\ Tail(s)[k - 1] = s[k]
OBVIOUS

(* What scan() returns: a candidate for every staged object that is not    *)
(* structural, made from what is there.                                    *)
LEMMA Scans ==
  ASSUME FsOK, Shared, Scan, pc' # "failed"
  PROVE  /\ pc = "scan" /\ pc' = "next"
         /\ UNCHANGED <<name, uiVars, summary, edits, skipped, arrived>>
         /\ FsOK'
         /\ \A p \in Path : Present("staged", p) => ~Unreachable("installed", p)
         /\ todo' \in Seq(View) /\ found' = Len(todo') /\ Len(todo') <= Cardinality(Path)
         /\ \A k \in DOMAIN todo' :
              /\ Snapshot(todo'[k]) /\ todo'[k] = Scanned(todo'[k].path) /\ todo'[k].path \in Path
              /\ Present("staged", todo'[k].path) /\ ~Structural(todo'[k].path)
         /\ \A p \in Path : Present("staged", p) /\ ~Structural(p) =>
              \E k \in DOMAIN todo' : todo'[k].path = p
         /\ \A k, l \in DOMAIN todo' : todo'[k].path = todo'[l].path => k = l
         /\ \A k, l \in DOMAIN todo' : k < l => Before(todo'[k], todo'[l])
         /\ \A i \in Ino : node[i] # NoNode =>
              node'[i] = Stamped(node[i], 0) /\ node'[i] # NoNode
              /\ node'[i].type = node[i].type /\ node'[i].data = node[i].data /\ node'[i].ctime = 0
              /\ node'[i].mode = node[i].mode /\ node'[i].owner = node[i].owner
<1> DEFINE S == {q \in {p \in Path : Present("staged", p)} : ~Structural(q)}
           E == {Scanned(p) : p \in S}
           g == [p \in S |-> Scanned(p)]
<1>1. /\ pc = "scan" /\ pc' = "next"
      /\ \A p \in {q \in Path : Present("staged", q)} : ~Unreachable("installed", p)
      /\ node' = [i \in Ino |-> Stamped(node[i], 0)]
      /\ todo' = Sorted(E, Before) /\ found' = Cardinality(E)
      /\ UNCHANGED <<name, uiVars, summary, edits, skipped, arrived>>
  BY Zenon DEF Scan, Fail
<1>2. S \in SUBSET Path /\ IsFiniteSet(S) /\ Cardinality(S) <= Cardinality(Path)
      /\ Cardinality(S) \in Nat /\ Cardinality(Path) \in Nat
  BY PathAssumption, FS_Subset, FS_CardinalityType
<1>3. \A p \in S : /\ p \in Path /\ Scanned(p) \in View /\ Scanned(p).path = p
                   /\ Snapshot(Scanned(p)) /\ Present("staged", p) /\ ~Structural(p)
  BY <1>2, ScannedFields, ScannedSnapshot
<1>4. g \in Surjection(S, E)
  BY DEF Surjection
<1> HIDE DEF g
<1>5. IsFiniteSet(E) /\ Cardinality(E) <= Cardinality(S) /\ Cardinality(E) \in Nat
  <2> HIDE DEF E, S
  <2> QED
    BY <1>2, <1>4, FS_Surjection, FS_CardinalityType
<1>6. \A v \in E : /\ v.path \in S /\ v = Scanned(v.path) /\ v \in View /\ Snapshot(v)
                   /\ v.path \in Path /\ Present("staged", v.path) /\ ~Structural(v.path)
  <2> HIDE DEF S
  <2> QED
    BY <1>3
<1>7. \A p \in S : \E v \in E : v.path = p
  <2> HIDE DEF S
  <2> QED
    BY <1>3
<1> HIDE DEF E
<1>8. /\ todo' \in Seq(E) /\ Len(todo') = Cardinality(E) /\ DOMAIN todo' = 1 .. Len(todo')
      /\ \A k, l \in DOMAIN todo' : todo'[k] = todo'[l] => k = l
      /\ \A v \in E : \E k \in DOMAIN todo' : todo'[k] = v
      /\ \A k, l \in DOMAIN todo' : k < l => Before(todo'[k], todo'[l])
  <2>1. \A v \in E : v.path \in Path
    BY <1>6
  <2>2. \A v, w \in E : v.path = w.path => v = w
    BY <1>6
  <2> QED
    BY <1>1, <1>5, <2>1, <2>2, EntriesSorted, Zenon
<1>9. \A k \in DOMAIN todo' : todo'[k] \in E
  BY <1>8
<1>10. todo' \in Seq(View)
  <2>1. E \subseteq View
    BY <1>6
  <2> QED
    BY <1>8, <2>1
<1>11. \A p \in S : \E k \in DOMAIN todo' : todo'[k].path = p
  BY <1>7, <1>8
<1>12. \A k, l \in DOMAIN todo' : todo'[k].path = todo'[l].path => k = l
  BY <1>6, <1>8, <1>9
<1>13. found' = Len(todo') /\ Len(todo') <= Cardinality(Path)
  BY <1>1, <1>2, <1>5, <1>8
<1>14. /\ FsOK'
       /\ \A i \in Ino : node[i] # NoNode =>
            node'[i] = Stamped(node[i], 0) /\ node'[i] # NoNode
            /\ node'[i].type = node[i].type /\ node'[i].data = node[i].data /\ node'[i].ctime = 0
            /\ node'[i].mode = node[i].mode /\ node'[i].owner = node[i].owner
  BY <1>1, ScanTrees
<1> QED
  BY <1>1, <1>6, <1>8, <1>9, <1>10, <1>11, <1>12, <1>13, <1>14

------------------------------------------------------------------------------
(* The program's own state.                                                *)

Asking == Menu \cup {"keep", "difference"}
Busy == Asking \cup Acting

(* Where each call starts, and where it may be.                            *)
Starts == {<<"keep", "dress">>, <<"keep", "retire">>, <<"install", "rename">>,
           <<"install_merged", "publish">>, <<"move", "move">>, <<"remove_relic", "retire">>}
Stages == Starts \cup {<<"install", "dress">>, <<"install_merged", "retire">>}

Types ==
  /\ FsOK
  /\ dry_run \in BOOLEAN /\ source \in Tree /\ edits \in 0 .. MaxEdits
  /\ pc \in Busy \cup {"scan", "next", "sweep", "done", "failed"}
  /\ call \in Call \cup {NoCall} /\ (call # NoCall <=> pc \in Acting)
  /\ copy \in Data \cup {NoCopy} /\ (copy # NoCopy <=> pc = "merge" \/ call.op = "install_merged")
  /\ todo \in Seq(View) /\ Len(todo) <= Cardinality(Path)
  /\ sweep \in Seq(Path)
  /\ summary \in [inspected: Nat, resolved: Nat, skipped: Nat]
  /\ found \in Nat /\ skipped \subseteq View /\ arrived \subseteq Path

(* Which candidates come to which prompt.                                  *)
Dialogues ==
  /\ pc = "relic" <=> Relic(Current.cd)
  /\ pc \in {"difference", "regular", "merge"} => Regular /\ ~Current.cd.equal
  /\ pc = "keep" => Current.cd.equal
  /\ pc = "simple" => ~Current.cd.equal /\ ~Regular

(* Which candidates the calls under way are about.                         *)
Subjects ==
  /\ call.op \in {"move", "remove_relic"} <=> Relic(Current.cd)
  /\ call.op = "install" => ~Current.cd.equal /\ Current.cd.staged.type # "directory"
  /\ call.op = "install_merged" => ~Current.cd.equal /\ Regular

(* Where the program is tells what the current candidate is like.          *)
Flow ==
  /\ pc \in Busy => todo # <<>> /\ ~dry_run
  /\ pc \in {"scan", "sweep", "done", "failed"} => todo = <<>>
  /\ pc = "sweep" => ~dry_run
  /\ pc # "sweep" => sweep = <<>>
  /\ pc \in Asking => Dialogues
  /\ pc \in Acting => <<call.op, pc>> \in Stages /\ call.since <= edits /\ Subjects

(* What every candidate says was so when it was scanned, and no two are of *)
(* the same path.                                                          *)
Scene ==
  /\ \A k \in DOMAIN todo : Snapshot(todo[k])
  /\ \A v \in skipped : Snapshot(v)
  /\ \A k, l \in DOMAIN todo : todo[k].path = todo[l].path => k = l
  /\ pc = "scan" => Shared

Base == Types /\ Flow /\ Scene

(* A library call has found its candidate current and goes on.             *)
Begins ==
  /\ pc \in Asking /\ Fresh
  /\ pc' \in Acting /\ <<call'.op, pc'>> \in Starts
  /\ call' \in Call /\ call'.since = edits
  /\ call'.op \in {"move", "remove_relic"} <=> Relic(Current.cd)
  /\ call'.op = "install" => ~Current.cd.equal /\ Current.cd.staged.type # "directory"
  /\ call'.op = "install_merged" <=> pc = "merge"
  /\ UNCHANGED <<name, node, todo, sweep, source, copy, dry_run, summary, edits,
                 found, skipped, arrived>>

Goes(label) ==
  /\ pc' = label /\ <<call.op, label>> \in Stages
  /\ UNCHANGED <<todo, source, copy, call, summary>>

Returns == Advance /\ summary' = [summary EXCEPT !.resolved = @ + 1]

(* A step of a call that gets on or returns.                               *)
Acts ==
  /\ pc \in Acting /\ Works(It)
  /\ (\E label \in Acting : Goes(label)) \/ Returns
  /\ UNCHANGED <<sweep, dry_run, edits, found, skipped, arrived>>

Dressed ==
  /\ Acts /\ pc = "dress"
  /\ IF call.op = "keep" THEN Goes("retire") ELSE Returns
  /\ name' = name

Retired ==
  /\ Acts /\ pc = "retire" /\ Returns
  /\ name'["installed"] = name["installed"]
  /\ \/ name'["staged"][It] = NoIno /\ Below("staged", It) = {}
     \/ /\ Current.cd.staged.type = "directory" /\ UNCHANGED <<name, node>>
        /\ ~(Present("staged", It) /\ Below("staged", It) = {})

Renamed ==
  /\ Acts /\ pc = "rename" /\ Goes("dress")
  /\ name["staged"][It] # NoIno
  /\ ~IsDirectory("staged", It) /\ ~IsDirectory("installed", It)
  /\ name'["installed"][It] = name["staged"][It]
  /\ \A q \in Path : q # It => name'["installed"][q] = name["installed"][q]
  /\ name["installed"][It] # name["staged"][It] => name'["staged"][It] = NoIno

Published ==
  /\ Acts /\ pc = "publish" /\ Goes("retire")
  /\ ~IsDirectory("installed", It)
  /\ name'["staged"] = name["staged"]
  /\ name'["installed"][It] \in Unused
  /\ \A q \in Path : q # It => name'["installed"][q] = name["installed"][q]
  /\ node'[name'["installed"][It]].type = "regular"
  /\ node'[name'["installed"][It]].data = copy

Makes(q) ==
  /\ ~Present("installed", q) /\ \A r \in Above[q] : IsDirectory("installed", r)
  /\ name'["installed"][q] \in Unused
  /\ \A r \in Path : r # q => name'["installed"][r] = name["installed"][r]
  /\ node'[name'["installed"][q]].type = "directory"

Made ==
  /\ Acts /\ pc = "move" /\ Goes("move")
  /\ name'["staged"] = name["staged"]
  /\ \E q \in Path : Makes(q)

Moved ==
  /\ Acts /\ pc = "move" /\ Returns
  /\ call.to \in Path
  /\ name["staged"][It] # NoIno /\ ~Present("installed", call.to)
  /\ \A r \in Above[call.to] : IsDirectory("installed", r)
  /\ name'["staged"][It] = NoIno
  /\ name'["installed"][call.to] = name["staged"][It]
  /\ \A q \in Path : q # call.to => name'["installed"][q] = name["installed"][q]

Performs == Dressed \/ Retired \/ Renamed \/ Published \/ Made \/ Moved

(* A step that neither fails nor touches the trees nor leaves a candidate. *)
Asks ==
  \/ Visit \/ (\E s \in Tree : ChooseMetadata(s))
  \/ (ShowDifference \/ Merge) /\ pc' # "failed"
  \/ (\E d \in Data : EditCopy(d))

Intrudes ==
  \E p \in Path :
    \/ \E t \in Tree, d \in Data : OtherWrites(t, p, d)
    \/ \E n \in InitNode : OtherRejects(p, n) \/ OtherReplaces(p, n)

(* The candidate in hand.                                                  *)
LEMMA InHand ==
  ASSUME Base, todo # <<>>
  PROVE  /\ Current \in View /\ Current = todo[1] /\ 1 \in DOMAIN todo /\ Snapshot(Current)
         /\ It \in Path /\ It = Current.path
<1>1. Current \in View /\ Current = todo[1] /\ 1 \in DOMAIN todo
  BY Tails DEF Base, Types, Current
<1>2. Snapshot(Current)
  BY <1>1 DEF Base, Scene
<1> QED
  BY <1>1, <1>2, Views DEF It

(* The call in hand.                                                       *)
LEMMA UnderWay ==
  ASSUME Base, pc \in Acting
  PROVE  /\ todo # <<>> /\ ~dry_run
         /\ Current \in View /\ Current = todo[1] /\ 1 \in DOMAIN todo /\ Snapshot(Current)
         /\ It \in Path /\ It = Current.path
         /\ FsOK /\ source \in Tree
         /\ call \in Call /\ call.to \in Path /\ call.since \in Nat
         /\ <<call.op, pc>> \in Stages /\ call.since <= edits /\ Subjects
         /\ (call.op = "install_merged" => copy \in Data)
<1>1. todo # <<>> /\ ~dry_run /\ <<call.op, pc>> \in Stages /\ call.since <= edits /\ Subjects
  BY DEF Base, Flow, Busy
<1>2. FsOK /\ source \in Tree /\ call \in Call /\ (call.op = "install_merged" => copy \in Data)
  BY DEF Base, Types
<1>3. call.to \in Path /\ call.since \in Nat
  BY <1>2, OriginalAssumption DEF Call
<1> QED
  BY <1>1, <1>2, <1>3, InHand

(* Validating.                                                             *)
LEMMA Validated ==
  ASSUME Base, NEW op \in {"keep", "install", "install_merged", "move", "remove_relic"},
         NEW to \in Path, NEW label \in Acting, Validate(op, to, label), pc' # "failed"
  PROVE  /\ Fresh /\ pc' = label /\ call' = [op |-> op, to |-> to, since |-> edits]
         /\ call' \in Call /\ call'.op = op /\ call'.since = edits
         /\ UNCHANGED <<name, node, todo, sweep, source, copy, dry_run, summary, edits,
                        found, skipped, arrived>>
<1>1. /\ Fresh /\ pc' = label /\ call' = [op |-> op, to |-> to, since |-> edits]
      /\ UNCHANGED <<name, node, todo, sweep, source, copy, dry_run, summary, edits,
                     found, skipped, arrived>>
  BY Zenon DEF Validate, Fail, fsVars, history
<1>2. edits \in 0 .. MaxEdits
  BY DEF Base, Types
<1> QED
  BY <1>1, <1>2 DEF Call

LEMMA KeepStep ==
  ASSUME Base, Keep, pc' # "failed"
  PROVE  Begins
<1> DEFINE label == IF source = "staged" /\ ~MetadataEqual(Current.cd) THEN "dress" ELSE "retire"
<1>1. pc \in {"keep", "regular", "simple"} /\ Validate("keep", It, label)
  BY DEF Keep
<1>2. pc \in Asking /\ todo # <<>> /\ ~Relic(Current.cd)
  BY <1>1 DEF Base, Flow, Busy, Asking, Menu, Dialogues
<1>3. It \in Path /\ label \in {"dress", "retire"} /\ label \in Acting
  BY <1>2, InHand DEF Acting
<1> HIDE DEF label
<1>4. /\ Fresh /\ pc' = label /\ call' \in Call /\ call'.op = "keep" /\ call'.since = edits
      /\ UNCHANGED <<name, node, todo, sweep, source, copy, dry_run, summary, edits,
                     found, skipped, arrived>>
  BY <1>1, <1>3, Validated
<1> QED
  BY <1>1, <1>2, <1>3, <1>4 DEF Begins, Starts

LEMMA UpgradeStep ==
  ASSUME Base, Upgrade, pc' # "failed"
  PROVE  Begins
<1>1. /\ pc \in {"regular", "simple"} /\ Current.cd.staged.type # "directory"
      /\ Validate("install", It, "rename")
  BY Zenon DEF Upgrade, Fail
<1>2. pc \in Asking /\ todo # <<>> /\ ~Relic(Current.cd) /\ ~Current.cd.equal
  BY <1>1 DEF Base, Flow, Busy, Asking, Menu, Dialogues
<1>3. It \in Path /\ "rename" \in Acting
  BY <1>2, InHand DEF Acting
<1>4. /\ Fresh /\ pc' = "rename" /\ call' \in Call /\ call'.op = "install" /\ call'.since = edits
      /\ UNCHANGED <<name, node, todo, sweep, source, copy, dry_run, summary, edits,
                     found, skipped, arrived>>
  BY <1>1, <1>3, Validated
<1> QED
  BY <1>1, <1>2, <1>3, <1>4 DEF Begins, Starts

LEMMA MergedStep ==
  ASSUME Base, InstallMerged, pc' # "failed"
  PROVE  Begins
<1>1. pc = "merge" /\ Validate("install_merged", It, "publish")
  BY DEF InstallMerged
<1>2. pc \in Asking /\ todo # <<>> /\ ~Relic(Current.cd)
  BY <1>1 DEF Base, Flow, Busy, Asking, Menu, Dialogues
<1>3. It \in Path /\ "publish" \in Acting
  BY <1>2, InHand DEF Acting
<1>4. /\ Fresh /\ pc' = "publish" /\ call' \in Call /\ call'.op = "install_merged"
      /\ call'.since = edits
      /\ UNCHANGED <<name, node, todo, sweep, source, copy, dry_run, summary, edits,
                     found, skipped, arrived>>
  BY <1>1, <1>3, Validated
<1> QED
  BY <1>1, <1>2, <1>3, <1>4 DEF Begins, Starts

LEMMA RelicStep ==
  ASSUME Base, RemoveRelic \/ (\E dest \in Path : MoveRelic(dest)), pc' # "failed"
  PROVE  Begins
<1>1. pc = "relic"
  BY DEF RemoveRelic, MoveRelic
<1>2. pc \in Asking /\ todo # <<>> /\ Relic(Current.cd)
  BY <1>1 DEF Base, Flow, Busy, Asking, Menu, Dialogues
<1>3. It \in Path /\ "retire" \in Acting /\ "move" \in Acting
  BY <1>2, InHand DEF Acting
<1>4. CASE RemoveRelic
  <2>1. Validate("remove_relic", It, "retire")
    BY <1>4 DEF RemoveRelic
  <2>2. /\ Fresh /\ pc' = "retire" /\ call' \in Call /\ call'.op = "remove_relic"
        /\ call'.since = edits
        /\ UNCHANGED <<name, node, todo, sweep, source, copy, dry_run, summary, edits,
                       found, skipped, arrived>>
    BY <1>3, <2>1, Validated
  <2> QED
    BY <1>1, <1>2, <1>3, <2>2 DEF Begins, Starts
<1>5. CASE \E dest \in Path : MoveRelic(dest)
  <2>1. PICK dest \in Path : Validate("move", dest, "move")
    BY <1>5 DEF MoveRelic
  <2>2. /\ Fresh /\ pc' = "move" /\ call' \in Call /\ call'.op = "move" /\ call'.since = edits
        /\ UNCHANGED <<name, node, todo, sweep, source, copy, dry_run, summary, edits,
                       found, skipped, arrived>>
    BY <1>3, <2>1, Validated
  <2> QED
    BY <1>1, <1>2, <1>3, <2>2 DEF Begins, Starts
<1> QED
  BY <1>4, <1>5

LEMMA DressStep ==
  ASSUME Base, Dress, pc' # "failed"
  PROVE  Dressed
<1>1. pc = "dress" /\ pc \in Acting
  BY DEF Dress, Acting
<1>2. IF call.op = "keep" THEN Step("retire") ELSE Return
  BY Zenon DEF Dress, Fail
<1>3. Works(It) /\ name' = name
  BY <1>1, UnderWay, DressTrees
<1>4. CASE call.op = "keep"
  <2>1. Goes("retire") /\ UNCHANGED <<sweep, dry_run, edits, found, skipped, arrived>>
    BY <1>2, <1>4 DEF Step, Goes, uiVars, history, Stages, Starts
  <2> QED
    BY <1>1, <1>3, <1>4, <2>1 DEF Dressed, Acts, Acting
<1>5. CASE call.op # "keep"
  <2>1. Returns /\ UNCHANGED <<sweep, dry_run, edits, found, skipped, arrived>>
    BY <1>2, <1>5 DEF Return, Returns, history
  <2> QED
    BY <1>1, <1>3, <1>5, <2>1 DEF Dressed, Acts
<1> QED
  BY <1>4, <1>5

LEMMA RetireStep ==
  ASSUME Base, Retire, pc' # "failed"
  PROVE  Retired
<1>1. pc = "retire" /\ pc \in Acting
  BY DEF Retire, Acting
<1>2. Return
  BY Zenon DEF Retire, Fail
<1>3. Returns /\ UNCHANGED <<sweep, dry_run, edits, found, skipped, arrived>>
  BY <1>2 DEF Return, Returns, history
<1>4. /\ Works(It)
      /\ name'["installed"] = name["installed"]
      /\ \/ name'["staged"][It] = NoIno /\ Below("staged", It) = {}
         \/ /\ Current.cd.staged.type = "directory" /\ UNCHANGED <<name, node>>
            /\ ~(Present("staged", It) /\ Below("staged", It) = {})
  BY <1>1, UnderWay, RetireTrees
<1> QED
  BY <1>1, <1>3, <1>4 DEF Retired, Acts

LEMMA RenameStep ==
  ASSUME Base, Rename, pc' # "failed"
  PROVE  Renamed
<1>1. pc = "rename" /\ pc \in Acting
  BY DEF Rename, Acting
<1>2. Step("dress")
  BY Zenon DEF Rename, Fail
<1>3. <<call.op, "dress">> \in Stages
  BY <1>1, UnderWay DEF Stages, Starts
<1>4. Goes("dress") /\ UNCHANGED <<sweep, dry_run, edits, found, skipped, arrived>>
  BY <1>2, <1>3 DEF Step, Goes, uiVars, history
<1>5. /\ Works(It)
      /\ name["staged"][It] # NoIno
      /\ ~IsDirectory("staged", It) /\ ~IsDirectory("installed", It)
      /\ name'["installed"][It] = name["staged"][It]
      /\ \A q \in Path : q # It => name'["installed"][q] = name["installed"][q]
      /\ name["installed"][It] # name["staged"][It] => name'["staged"][It] = NoIno
  BY <1>1, UnderWay, RenameTrees
<1> QED
  BY <1>1, <1>4, <1>5 DEF Renamed, Acts, Acting

LEMMA PublishStep ==
  ASSUME Base, Publish, pc' # "failed"
  PROVE  Published
<1>1. pc = "publish" /\ pc \in Acting
  BY DEF Publish, Acting
<1>2. Step("retire")
  BY Zenon DEF Publish, Fail
<1>3. call.op = "install_merged" /\ <<call.op, "retire">> \in Stages
  BY <1>1, UnderWay DEF Stages, Starts
<1>4. Goes("retire") /\ UNCHANGED <<sweep, dry_run, edits, found, skipped, arrived>>
  BY <1>2, <1>3 DEF Step, Goes, uiVars, history
<1>5. /\ Works(It)
      /\ ~IsDirectory("installed", It)
      /\ name'["staged"] = name["staged"]
      /\ name'["installed"][It] \in Unused
      /\ \A q \in Path : q # It => name'["installed"][q] = name["installed"][q]
      /\ node'[name'["installed"][It]].type = "regular"
      /\ node'[name'["installed"][It]].data = copy
  BY <1>1, <1>3, UnderWay, PublishTrees
<1> QED
  BY <1>1, <1>4, <1>5 DEF Published, Acts, Acting

LEMMA MakeStep ==
  ASSUME Base, MakeParent, pc' # "failed"
  PROVE  Made
<1>1. pc = "move" /\ pc \in Acting
  BY DEF MakeParent, Acting
<1>2. Step("move")
  BY Zenon DEF MakeParent, Fail
<1>3. <<call.op, "move">> \in Stages
  BY <1>1, UnderWay
<1>4. Goes("move") /\ UNCHANGED <<sweep, dry_run, edits, found, skipped, arrived>>
  BY <1>2, <1>3 DEF Step, Goes, uiVars, history
<1>5. /\ Works(It)
      /\ name'["staged"] = name["staged"]
      /\ \E q \in Path : Makes(q)
  BY <1>1, UnderWay, MakeTrees DEF Makes
<1> QED
  BY <1>1, <1>4, <1>5 DEF Made, Acts, Acting

LEMMA MoveStep ==
  ASSUME Base, Move, pc' # "failed"
  PROVE  Moved
<1>1. pc = "move" /\ pc \in Acting
  BY DEF Move, Acting
<1>2. Return
  BY Zenon DEF Move, Fail
<1>3. Returns /\ UNCHANGED <<sweep, dry_run, edits, found, skipped, arrived>>
  BY <1>2 DEF Return, Returns, history
<1>4. /\ Works(It)
      /\ name["staged"][It] # NoIno /\ ~Present("installed", call.to)
      /\ \A r \in Above[call.to] : IsDirectory("installed", r)
      /\ name'["staged"][It] = NoIno
      /\ name'["installed"][call.to] = name["staged"][It]
      /\ \A q \in Path : q # call.to => name'["installed"][q] = name["installed"][q]
  BY <1>1, UnderWay, MoveTrees
<1> QED
  BY <1>1, <1>3, <1>4, UnderWay DEF Moved, Acts

(* Every step of a session is one of these.                                *)
LEMMA Steps ==
  ASSUME Base, [Next]_vars
  PROVE  \/ Fail \/ Asks \/ Begins \/ Performs \/ Intrudes \/ UNCHANGED vars
         \/ (Scan \/ ShowDryRun) /\ pc' # "failed"
         \/ Skip \/ Finish \/ Sweep \/ Swept
<1>1. Scan \/ ShowDryRun \/ ShowDifference \/ Merge => pc' # "failed" \/ Fail
  BY Zenon DEF Scan, ShowDryRun, ShowDifference, Merge, Advance
<1>2. Keep \/ Upgrade \/ InstallMerged \/ RemoveRelic \/ (\E dest \in Path : MoveRelic(dest)) =>
        pc' # "failed" \/ Fail
  <2>1. \A op, to : Validate(op, to, "rename") \/ Validate(op, to, "publish")
                    \/ Validate(op, to, "move") \/ Validate(op, to, "retire")
                    \/ Validate(op, to, "dress") => pc' # "failed" \/ Fail
    BY Zenon DEF Validate
  <2>2. Keep => Validate("keep", It, "dress") \/ Validate("keep", It, "retire")
    BY DEF Keep
  <2> QED
    BY <2>1, <2>2, Zenon DEF Upgrade, InstallMerged, RemoveRelic, MoveRelic
<1>3. Dress \/ Retire \/ Rename \/ Publish \/ MakeParent \/ Move => pc' # "failed" \/ Fail
  <2>1. Return \/ Step("retire") \/ Step("dress") \/ Step("move") => pc' # "failed"
    BY Zenon DEF Return, Step, Advance
  <2> QED
    BY <2>1, Zenon DEF Dress, Retire, Rename, Publish, MakeParent, Move
<1>4. Interrupted => Fail
  BY DEF Interrupted
<1>5. CASE Program
  BY <1>1, <1>2, <1>3, <1>5, KeepStep, DressStep, RetireStep, RenameStep, PublishStep, MakeStep,
     MoveStep, Zenon DEF Program, Asks, Performs
<1>6. CASE Decision
  BY <1>2, <1>6, KeepStep, UpgradeStep, MergedStep, RelicStep, Zenon DEF Decision, Asks
<1>7. CASE Merge \/ (\E d \in Data : EditCopy(d)) \/ Interrupted
  BY <1>1, <1>4, <1>7, Zenon DEF Asks
<1>8. CASE Others
  BY <1>8 DEF Others, Intrudes
<1>9. CASE UNCHANGED vars
  BY <1>9
<1> QED
  BY <1>5, <1>6, <1>7, <1>8, <1>9, Zenon DEF Next

(* The trees an earlier session may have left.  Every directory on the way *)
(* to a name is there.                                                     *)
WellFormed(t) ==
  \A p \in Path : Present(t, p) => \A q \in Above[p] : IsDirectory(t, q)

LEMMA InitTrees ==
  ASSUME Init
  PROVE  FsOK /\ Shared /\ \A t \in Tree : WellFormed(t)
<1>1. PICK here \in SUBSET (Tree \X Path), links \in SUBSET Linked :
        /\ \A l \in links : {l[1], l[2]} \subseteq here
        /\ name = Placed(here, links)
        /\ \E nodes \in [{name[h[1]][h[2]] : h \in here} -> InitNode] :
             node = [i \in Ino |-> IF i \in DOMAIN nodes THEN nodes[i] ELSE NoNode]
        /\ \A h \in here : \A q \in Above[h[2]] : IsDirectory(h[1], q)
        /\ \A l \in links : At(l[1][1], l[1][2]).type = "regular"
  BY Zenon DEF Init
<1> DEFINE Used == {name[h[1]][h[2]] : h \in here}
<1>2. PICK nodes \in [Used -> InitNode] :
        node = [i \in Ino |-> IF i \in DOMAIN nodes THEN nodes[i] ELSE NoNode]
  BY <1>1
<1>3. ASSUME NEW t \in Tree, NEW p \in Path
      PROVE  /\ <<t, p>> \notin here => name[t][p] = NoIno
             /\ <<t, p>> \in here =>
                  /\ name[t][p] \in Ino
                  /\ name[t][p] = Original[t][p] \/ \E l \in links : l[1] = <<t, p>>
  <2>1. name[t][p] = IF <<t, p>> \notin here THEN NoIno
                     ELSE IF \E l \in links : l[1] = <<t, p>>
                     THEN LET l == CHOOSE l \in links : l[1] = <<t, p>> IN Original[l[2][1]][l[2][2]]
                     ELSE Original[t][p]
    BY <1>1 DEF Placed
  <2>2. Original[t][p] \in Ino
    BY OriginalAssumption
  <2>3. \A l \in links : Original[l[2][1]][l[2][2]] \in Ino
    <3> TAKE l \in links
    <3>1. l[2] \in Tree \X Path
      BY OriginalAssumption
    <3>2. l[2][1] \in Tree /\ l[2][2] \in Path
      BY <3>1
    <3> QED
      BY <3>2, OriginalAssumption
  <2>4. CASE \E l \in links : l[1] = <<t, p>>
    <3> DEFINE k == CHOOSE l \in links : l[1] = <<t, p>>
    <3>1. k \in links
      BY <2>4
    <3>2. <<t, p>> \in here => name[t][p] = Original[k[2][1]][k[2][2]]
      BY <2>1, <2>4
    <3> HIDE DEF k
    <3> QED
      BY <2>1, <2>3, <2>4, <3>1, <3>2
  <2>5. CASE ~\E l \in links : l[1] = <<t, p>>
    BY <2>1, <2>2, <2>5
  <2> QED
    BY <2>4, <2>5
<1>4. \A t \in Tree, p \in Path : Present(t, p) <=> <<t, p>> \in here
  BY <1>3, InoAssumption DEF Present
<1>5. name \in [Tree -> [Path -> Ino \cup {NoIno}]]
  <2>1. name = [t \in Tree |-> [p \in Path |-> name[t][p]]]
    BY <1>1 DEF Placed
  <2>2. \A t \in Tree, p \in Path : name[t][p] \in Ino \cup {NoIno}
    BY <1>3
  <2> QED
    BY <2>1, <2>2
<1>6. \A i \in Ino : i \in Used <=> \E t \in Tree, p \in Path : name[t][p] = i
  <2>1. \A h \in here : h[1] \in Tree /\ h[2] \in Path /\ h = <<h[1], h[2]>>
    OBVIOUS
  <2> SUFFICES ASSUME NEW i \in Ino
               PROVE  i \in Used <=> \E t \in Tree, p \in Path : name[t][p] = i
    OBVIOUS
  <2>2. i \in Used => \E t \in Tree, p \in Path : name[t][p] = i
    BY <2>1
  <2>3. ASSUME NEW t \in Tree, NEW p \in Path, name[t][p] = i
        PROVE  i \in Used
    <3>1. <<t, p>> \in here
      BY <2>3, <1>3, InoAssumption
    <3> QED
      BY <2>3, <3>1
  <2> QED
    BY <2>2, <2>3
<1>7. \A i \in Ino : node[i] = IF i \in Used THEN nodes[i] ELSE NoNode
  BY <1>2
<1>8. \A n \in InitNode : n \in Node /\ n # NoNode
  BY OriginalAssumption, NodeAssumption
<1> HIDE DEF Used
<1>9. \A i \in Ino : IF i \in Used THEN node[i] \in Node /\ node[i] # NoNode ELSE node[i] = NoNode
  BY <1>7, <1>8
<1>10. node \in [Ino -> Node \cup {NoNode}]
  BY <1>2, <1>8
<1>11. FsOK
  BY <1>5, <1>6, <1>9, <1>10 DEF FsOK
<1>12. \A t \in Tree : WellFormed(t)
  <2> SUFFICES ASSUME NEW t \in Tree, NEW p \in Path, Present(t, p), NEW q \in Above[p]
               PROVE  IsDirectory(t, q)
    BY DEF WellFormed
  <2>1. <<t, p>> \in here
    BY <1>4
  <2> QED
    BY <1>1, <2>1
<1>13. Shared
  <2> SUFFICES ASSUME NEW t \in Tree, NEW u \in Tree, NEW p \in Path, NEW q \in Path,
                      name[t][p] = name[u][q], name[t][p] # NoIno, ~(t = u /\ p = q)
               PROVE  node[name[t][p]].type = "regular"
    BY DEF Shared
  <2>1. <<t, p>> \in here /\ <<u, q>> \in here
    BY <1>3
  <2>a. \A l \in links : At(l[1][1], l[1][2]).type = "regular"
    BY <1>1
  <2>b. ASSUME NEW l \in links, NEW v, NEW r, l[1] = <<v, r>>
        PROVE  node[name[v][r]].type = "regular"
    <3>1. l[1][1] = v /\ l[1][2] = r
      BY <2>b
    <3>2. At(v, r).type = "regular"
      BY <2>a, <3>1, Zenon
    <3> QED
      BY <3>2 DEF At
  <2>2. \A l \in links : l[1] = <<t, p>> => node[name[t][p]].type = "regular"
    BY <2>b
  <2>3. \A l \in links : l[1] = <<u, q>> => node[name[u][q]].type = "regular"
    BY <2>b
  <2>4. ~(name[t][p] = Original[t][p] /\ name[u][q] = Original[u][q])
    BY OriginalAssumption
  <2> QED
    BY <2>1, <2>2, <2>3, <2>4, <1>3
<1> QED
  BY <1>11, <1>12, <1>13

LEMMA BaseInit == Init => Base
<1> SUFFICES ASSUME Init
             PROVE  Base
  OBVIOUS
<1>1. /\ dry_run \in BOOLEAN /\ pc = "scan" /\ todo = <<>> /\ sweep = <<>> /\ copy = NoCopy
      /\ call = NoCall /\ source = "installed" /\ summary = NoSummary /\ edits = 0 /\ found = 0
      /\ skipped = {} /\ arrived = {}
  BY DEF Init
<1>2. Cardinality(Path) \in Nat /\ MaxEdits \in Nat
  BY PathAssumption, FS_CardinalityType, OriginalAssumption
<1>3. Types
  BY <1>1, <1>2, InitTrees DEF Types, Busy, Asking, Menu, Acting, Tree, NoSummary, NoCall
<1>4. Flow
  BY <1>1 DEF Flow, Busy, Asking, Menu, Acting
<1>5. Scene
  BY <1>1, InitTrees DEF Scene
<1> QED
  BY <1>3, <1>4, <1>5 DEF Base

LEMMA FsSame ==
  ASSUME FsOK, UNCHANGED <<name, node>>
  PROVE  FsOK'
BY DEF FsOK

(* Leaving the current candidate behind.                                   *)
LEMMA Advances ==
  ASSUME Base, todo # <<>>, Advance
  PROVE  /\ pc' = "next" /\ source' \in Tree /\ copy' = NoCopy /\ call' = NoCall
         /\ todo' \in Seq(View) /\ Len(todo') = Len(todo) - 1 /\ Len(todo) \in Nat
         /\ Len(todo') <= Cardinality(Path)
         /\ DOMAIN todo' = 1 .. Len(todo')
         /\ \A k \in DOMAIN todo' : k + 1 \in DOMAIN todo /\ todo'[k] = todo[k + 1]
         /\ \A k \in DOMAIN todo : k # 1 => k - 1 \in DOMAIN todo' /\ todo'[k - 1] = todo[k]
         /\ \A k \in DOMAIN todo' : Snapshot(todo'[k])
         /\ \A k, l \in DOMAIN todo' : todo'[k].path = todo'[l].path => k = l
<1>1. /\ pc' = "next" /\ source' \in Tree /\ copy' = NoCopy /\ call' = NoCall
      /\ todo' = Tail(todo)
      /\ todo \in Seq(View) /\ Len(todo) <= Cardinality(Path) /\ Cardinality(Path) \in Nat
  BY PathAssumption, FS_CardinalityType DEF Advance, Tree, Base, Types
<1>2. /\ todo' \in Seq(View) /\ Len(todo) \in Nat /\ Len(todo') = Len(todo) - 1
      /\ DOMAIN todo' = 1 .. Len(todo')
      /\ \A k \in DOMAIN todo' : k + 1 \in DOMAIN todo /\ todo'[k] = todo[k + 1]
      /\ \A k \in DOMAIN todo : k # 1 => k - 1 \in DOMAIN todo' /\ todo'[k - 1] = todo[k]
  BY <1>1, Tails
<1>3. \A k \in DOMAIN todo' : Snapshot(todo'[k])
  BY <1>2 DEF Base, Scene
<1>4. \A k, l \in DOMAIN todo' : todo'[k].path = todo'[l].path => k = l
  <2> SUFFICES ASSUME NEW k \in DOMAIN todo', NEW l \in DOMAIN todo', todo'[k].path = todo'[l].path
               PROVE  k = l
    OBVIOUS
  <2>1. k + 1 = l + 1
    BY <1>2 DEF Base, Scene
  <2> QED
    BY <2>1, <1>2
<1> QED
  BY <1>1, <1>2, <1>3, <1>4

LEMMA FailBase ==
  ASSUME Base, Fail
  PROVE  Base'
<1>1. /\ pc' = "failed" /\ copy' = NoCopy /\ call' = NoCall /\ todo' = <<>> /\ sweep' = <<>>
      /\ source' = "installed"
      /\ summary' = NoSummary /\ found' = 0 /\ skipped' = {} /\ arrived' = {}
      /\ UNCHANGED <<name, node, dry_run, edits>>
  BY DEF Fail, Leave, fsVars
<1>2. Cardinality(Path) \in Nat
  BY PathAssumption, FS_CardinalityType
<1>3. FsOK'
  BY <1>1, FsSame DEF Base, Types
<1>4. Types'
  BY <1>1, <1>2, <1>3 DEF Base, Types, Busy, Asking, Menu, Acting, Tree, NoSummary, NoCall
<1>5. Flow'
  BY <1>1 DEF Flow, Busy, Asking, Menu, Acting
<1>6. Scene'
  BY <1>1 DEF Scene
<1> QED
  BY <1>4, <1>5, <1>6 DEF Base

(* The steps of one dialogue that ask, show or compare.                    *)
LEMMA AskFacts ==
  ASSUME Base, Asks
  PROVE  /\ UNCHANGED <<name, node, todo, sweep, call, dry_run, edits, found, skipped, arrived>>
         /\ todo # <<>> /\ ~dry_run /\ pc # "scan" /\ pc \notin Acting
         /\ source' \in Tree /\ pc' \in Asking /\ call = NoCall
         /\ copy' \in Data \cup {NoCopy} /\ (copy' # NoCopy <=> pc' = "merge")
         /\ Dialogues'
         /\ \/ pc = "next" /\ summary' = [summary EXCEPT !.inspected = @ + 1]
            \/ pc \in Busy /\ summary' = summary
<1> DEFINE Next1 ==
      /\ pc' = "relic" <=> Relic(Current.cd)
      /\ pc' \in {"difference", "regular", "merge"} => Regular /\ ~Current.cd.equal
      /\ pc' = "keep" => Current.cd.equal
      /\ pc' = "simple" => ~Current.cd.equal /\ ~Regular
<1>1. /\ Types /\ Flow
  BY DEF Base
<1>2. \A d \in Data : d # NoCopy
  BY ByteAssumption DEF Data, Block, NoCopy
<1>3. Dialogue \in {"keep", "difference", "simple"} /\ (Dialogue = "keep" <=> Current.cd.equal)
      /\ (Dialogue = "difference" => Regular) /\ (Dialogue = "simple" => ~Regular)
  BY DEF Dialogue
<1>4. pc \in Asking \cup {"next"} =>
        /\ pc \notin Acting /\ call = NoCall
        /\ copy \in Data \cup {NoCopy} /\ (copy # NoCopy <=> pc = "merge")
  BY <1>1 DEF Types, Asking, Menu, Acting, NoCall
<1>5. pc \in Asking => /\ todo # <<>> /\ ~dry_run /\ pc # "scan" /\ pc \in Busy
                       /\ pc = "relic" <=> Relic(Current.cd)
                       /\ pc \in {"difference", "regular", "merge"} => Regular /\ ~Current.cd.equal
  BY <1>1 DEF Flow, Busy, Asking, Menu, Dialogues
<1>6. CASE Visit
  <2>1. /\ UNCHANGED <<name, node, todo, sweep, source, copy, call, dry_run, edits,
                       found, skipped, arrived>>
        /\ pc = "next" /\ todo # <<>> /\ ~dry_run
        /\ summary' = [summary EXCEPT !.inspected = @ + 1]
        /\ pc' = IF Relic(Current.cd) THEN "relic"
                 ELSE IF MetadataEqual(Current.cd) THEN Dialogue ELSE "metadata"
    BY <1>6 DEF Visit, fsVars, uiVars, history
  <2>2. Next1 /\ pc' \in Asking /\ pc' # "merge"
    BY <1>3, <2>1 DEF Asking, Menu
  <2>3. Dialogues'
    BY <2>1, <2>2 DEF Dialogues, Current, Regular
  <2> QED
    BY <1>1, <1>4, <2>1, <2>2, <2>3 DEF Types
<1>7. CASE \E s \in Tree : ChooseMetadata(s)
  <2>1. /\ UNCHANGED <<name, node, todo, sweep, copy, call, dry_run, summary, edits,
                       found, skipped, arrived>>
        /\ pc = "metadata" /\ source' \in Tree /\ pc' = Dialogue
    BY <1>7 DEF ChooseMetadata, fsVars, history
  <2>2. pc \in Asking
    BY <2>1 DEF Asking, Menu
  <2>3. Next1 /\ pc' \in Asking /\ pc' # "merge"
    BY <1>3, <1>5, <2>1, <2>2 DEF Asking, Menu
  <2>4. Dialogues'
    BY <2>1, <2>3 DEF Dialogues, Current, Regular
  <2> QED
    BY <1>4, <1>5, <2>1, <2>2, <2>3, <2>4
<1>8. CASE (ShowDifference \/ Merge) /\ pc' # "failed"
  <2>1. /\ UNCHANGED <<name, node, todo, sweep, source, call, dry_run, summary, edits,
                       found, skipped, arrived>>
        /\ \/ pc = "difference" /\ pc' = "regular" /\ copy' = copy
           \/ pc = "regular" /\ pc' = "merge" /\ copy' = Conflicts
    BY <1>8 DEF ShowDifference, Merge, fsVars, uiVars, history, Fail
  <2>2. pc \in Asking /\ pc' \in Asking
    BY <2>1 DEF Asking, Menu
  <2>3. Next1
    BY <1>5, <2>1, <2>2
  <2>4. Dialogues'
    BY <2>1, <2>3 DEF Dialogues, Current, Regular
  <2>5. Conflicts \in Data /\ source \in Tree
    BY <1>1, OriginalAssumption DEF Types
  <2> QED
    BY <1>2, <1>4, <1>5, <2>1, <2>2, <2>4, <2>5
<1>9. CASE \E d \in Data : EditCopy(d)
  <2>1. /\ UNCHANGED <<name, node, todo, sweep, source, call, dry_run, summary, edits,
                       found, skipped, arrived>>
        /\ pc = "merge" /\ pc' = "merge" /\ copy' \in Data
    BY <1>9 DEF EditCopy, fsVars, history
  <2>2. pc \in Asking
    BY <2>1 DEF Asking, Menu
  <2>3. Next1
    BY <1>5, <2>1, <2>2
  <2>4. Dialogues'
    BY <2>1, <2>3 DEF Dialogues, Current, Regular
  <2> QED
    BY <1>1, <1>2, <1>4, <1>5, <2>1, <2>2, <2>4 DEF Types
<1> QED
  BY <1>6, <1>7, <1>8, <1>9 DEF Asks

LEMMA AskBase ==
  ASSUME Base, Asks
  PROVE  Base'
<1>1. Types /\ Flow /\ Scene
  BY DEF Base
<1>2. summary' \in [inspected: Nat, resolved: Nat, skipped: Nat]
  BY <1>1, AskFacts DEF Types
<1>3. FsOK'
  BY <1>1, AskFacts, FsSame DEF Types
<1>4. pc' \notin Acting /\ pc' \in Busy /\ pc' \notin {"scan", "sweep", "done", "failed"} /\ call' = NoCall
  BY AskFacts DEF Asking, Busy, Menu, Acting
<1>5. Types'
  BY <1>1, <1>2, <1>3, <1>4, AskFacts DEF Types, NoCall
<1>6. Flow'
  <2>1. pc # "sweep"
    BY <1>1, AskFacts DEF Flow
  <2> QED
    BY <1>1, <1>4, <2>1, AskFacts DEF Flow
<1>7. Scene'
  BY <1>1, <1>4, AskFacts DEF Scene
<1> QED
  BY <1>5, <1>6, <1>7 DEF Base

(* What other processes do.                                                *)
LEMMA IntrudeFacts ==
  ASSUME Base, Intrudes
  PROVE  /\ UNCHANGED <<pc, todo, sweep, source, copy, call, dry_run, summary, found, skipped>>
         /\ pc \notin {"scan", "done", "failed"}
         /\ edits \in Nat /\ edits' = edits + 1 /\ edits' <= MaxEdits
         /\ FsOK' /\ Ages /\ name'["installed"] = name["installed"]
         /\ \/ name' = name /\ arrived' = arrived
            \/ \E p \in Path :
                 /\ \A q \in Path : q # p => name'["staged"][q] = name["staged"][q]
                 /\ name'["staged"][p] \in Unused /\ name'["staged"][p] # NoIno
                 /\ node'[name'["staged"][p]] # NoNode
                 /\ node'[name'["staged"][p]].type = "regular"
                 /\ arrived' = arrived \cup {p}
                 /\ \/ ~IsDirectory("staged", p) /\ \A q \in Above[p] : IsDirectory("staged", q)
                    \/ IsDirectory("staged", p) /\ Below("staged", p) = {}
<1>1. FsOK /\ edits \in 0 .. MaxEdits /\ edits \in Nat /\ MaxEdits \in Nat
  BY OriginalAssumption DEF Base, Types
<1>2. ASSUME Meanwhile
      PROVE  /\ UNCHANGED <<pc, todo, sweep, source, copy, call, dry_run, summary, found, skipped>>
             /\ pc \notin {"scan", "done", "failed"}
             /\ edits' = edits + 1 /\ edits' <= MaxEdits
  BY <1>1, <1>2 DEF Meanwhile, uiVars
<1>3. PICK p \in Path :
        \/ \E t \in Tree, d \in Data : OtherWrites(t, p, d)
        \/ \E n \in InitNode : OtherRejects(p, n) \/ OtherReplaces(p, n)
  BY DEF Intrudes
<1>4. CASE \E t \in Tree, d \in Data : OtherWrites(t, p, d)
  <2>1. PICK t \in Tree, d \in Data : OtherWrites(t, p, d)
    BY <1>4
  <2>2. Meanwhile /\ arrived' = arrived
    BY <2>1 DEF OtherWrites
  <2>3. FsOK' /\ Ages /\ name' = name
    BY <1>1, <2>1, WriteTrees
  <2> QED
    BY <1>1, <1>2, <2>2, <2>3
<1>5. CASE \E n \in InitNode : OtherRejects(p, n) \/ OtherReplaces(p, n)
  <2>1. PICK n \in InitNode : OtherRejects(p, n) \/ OtherReplaces(p, n)
    BY <1>5
  <2>2. Meanwhile /\ OtherStages(p, n)
    BY <2>1 DEF OtherRejects, OtherReplaces
  <2>3. \/ ~IsDirectory("staged", p) /\ \A q \in Above[p] : IsDirectory("staged", q)
        \/ IsDirectory("staged", p) /\ Below("staged", p) = {}
    BY <2>1 DEF OtherRejects, OtherReplaces
  <2>4. /\ FsOK' /\ Ages
        /\ name'["installed"] = name["installed"]
        /\ name'["staged"][p] \in Unused
        /\ \A q \in Path : q # p => name'["staged"][q] = name["staged"][q]
        /\ node'[name'["staged"][p]] # NoNode
        /\ node'[name'["staged"][p]].type = "regular"
        /\ arrived' = arrived \cup {p}
    BY <1>1, <2>2, StageTrees
  <2>5. name'["staged"][p] # NoIno
    BY <1>1, <2>4, FreeMeansFree
  <2> QED
    BY <1>1, <1>2, <2>2, <2>3, <2>4, <2>5
<1> QED
  BY <1>3, <1>4, <1>5

LEMMA IntrudeBase ==
  ASSUME Base, Intrudes
  PROVE  Base'
<1>1. Types /\ Flow /\ Scene /\ FsOK
  BY DEF Base, Types
<1>2. /\ UNCHANGED <<pc, todo, sweep, source, copy, call, dry_run, summary, found, skipped>>
      /\ FsOK' /\ edits' \in 0 .. MaxEdits
  BY IntrudeFacts, OriginalAssumption
<1>3. arrived' \subseteq Path
  BY <1>1, IntrudeFacts DEF Types
<1>4. Types'
  BY <1>1, <1>2, <1>3 DEF Types
<1>5. Flow'
  <2>1. UNCHANGED <<Current, Regular, Dialogues, Subjects>>
    BY <1>2 DEF Current, Regular, Dialogues, Subjects
  <2>2. pc \in Acting => call.since <= edits'
    BY UnderWay, IntrudeFacts
  <2> QED
    BY <1>1, <1>2, <2>1, <2>2 DEF Flow
<1>6. Scene'
  BY <1>1, <1>2, IntrudeFacts DEF Scene
<1> QED
  BY <1>4, <1>5, <1>6 DEF Base

(* A candidate is left behind: skipped, resolved or only shown.            *)
LEMMA AdvanceBase ==
  ASSUME Base, todo # <<>>, pc # "sweep", Advance, FsOK', UNCHANGED <<sweep, dry_run, edits, found, arrived>>,
         summary' \in [inspected: Nat, resolved: Nat, skipped: Nat],
         skipped' \in {skipped, skipped \cup {Current}}
  PROVE  Base'
<1>1. Types /\ Flow /\ Scene /\ Current \in View /\ Snapshot(Current)
  BY InHand DEF Base
<1>2. skipped' \subseteq View /\ \A v \in skipped' : Snapshot(v)
  BY <1>1 DEF Types, Scene
<1>3. Types'
  BY <1>1, <1>2, Advances DEF Types, Busy, Asking, Menu, Acting, NoCall
<1>4. Flow'
  BY <1>1, Advances DEF Flow, Busy, Asking, Menu, Acting
<1>5. Scene'
  BY <1>2, Advances DEF Scene
<1> QED
  BY <1>3, <1>4, <1>5 DEF Base

(* A call starts.                                                          *)
LEMMA BeginBase ==
  ASSUME Base, Begins
  PROVE  Base'
<1>1. Types /\ Flow /\ Scene
  BY DEF Base
<1>2. /\ pc \in Asking /\ pc' \in Acting /\ <<call'.op, pc'>> \in Starts
      /\ call' \in Call /\ call'.since = edits
      /\ call'.op \in {"move", "remove_relic"} <=> Relic(Current.cd)
      /\ call'.op = "install" => ~Current.cd.equal /\ Current.cd.staged.type # "directory"
      /\ call'.op = "install_merged" <=> pc = "merge"
      /\ UNCHANGED <<name, node, todo, sweep, source, copy, dry_run, summary, edits,
                     found, skipped, arrived>>
  BY DEF Begins
<1>3. /\ pc \notin Acting /\ pc' \in Busy /\ pc' \notin Asking
      /\ pc' \notin {"scan", "sweep", "done", "failed", "merge"}
      /\ pc \notin {"scan", "sweep", "done", "failed"}
  BY <1>2 DEF Busy, Asking, Menu, Acting
<1>4. pc \in Busy /\ todo # <<>> /\ ~dry_run /\ Dialogues
  BY <1>1, <1>2 DEF Flow, Busy
<1>5. Types'
  <2>1. call' # NoCall
    BY <1>2 DEF Call, NoCall
  <2>2. copy # NoCopy <=> pc = "merge"
    BY <1>1, <1>3 DEF Types, NoCall
  <2>3. FsOK'
    BY <1>1, <1>2, FsSame DEF Types
  <2>4. copy' \in Data \cup {NoCopy} /\ (copy' # NoCopy <=> pc' = "merge" \/ call'.op = "install_merged")
    BY <1>1, <1>2, <1>3, <2>2 DEF Types
  <2> QED
    BY <1>1, <1>2, <1>3, <2>1, <2>3, <2>4 DEF Types
<1>6. Flow'
  <2>1. Subjects'
    BY <1>2, <1>4 DEF Subjects, Dialogues, Current, Regular
  <2>2. <<call'.op, pc'>> \in Stages /\ call'.since <= edits'
    BY <1>1, <1>2 DEF Stages, Types
  <2>3. sweep' = <<>>
    BY <1>1, <1>2, <1>3 DEF Flow
  <2> QED
    BY <1>2, <1>3, <1>4, <2>1, <2>2, <2>3 DEF Flow
<1>7. Scene'
  BY <1>1, <1>2, <1>3 DEF Scene
<1> QED
  BY <1>5, <1>6, <1>7 DEF Base

LEMMA Performing == Performs => Acts
BY DEF Performs, Dressed, Retired, Renamed, Published, Made, Moved

(* What every step of a call does and leaves alone.                        *)
LEMMA ActFacts ==
  ASSUME Base, Acts
  PROVE  /\ Works(It) /\ FsOK' /\ Ages /\ pc \in Busy /\ todo # <<>> /\ ~dry_run
         /\ pc \notin {"scan", "next", "sweep", "done", "failed"}
         /\ UNCHANGED <<sweep, dry_run, edits, found, skipped, arrived>>
         /\ \/ /\ pc' \in Acting /\ pc' \in Busy /\ <<call.op, pc'>> \in Stages
               /\ pc' \notin {"scan", "next", "sweep", "done", "failed", "merge"}
               /\ UNCHANGED <<todo, source, copy, call, summary>>
            \/ Advance /\ pc' = "next" /\ summary' = [summary EXCEPT !.resolved = @ + 1]
BY UnderWay DEF Acts, Works, Goes, Returns, Advance, Busy, Acting

LEMMA ActBase ==
  ASSUME Base, Acts
  PROVE  Base'
<1>1. Types /\ Flow /\ Scene /\ pc \in Acting
  BY DEF Base, Acts
<1>2. CASE Advance /\ summary' = [summary EXCEPT !.resolved = @ + 1]
  <2>1. summary' \in [inspected: Nat, resolved: Nat, skipped: Nat]
    BY <1>1, <1>2 DEF Types
  <2> QED
    BY <1>1, <1>2, <2>1, UnderWay, ActFacts, AdvanceBase
<1>3. CASE /\ pc' \in Acting /\ pc' \in Busy /\ <<call.op, pc'>> \in Stages
           /\ pc' \notin {"scan", "next", "sweep", "done", "failed", "merge"}
           /\ UNCHANGED <<todo, source, copy, call, summary>>
  <2>1. FsOK' /\ UNCHANGED <<sweep, dry_run, edits, found, skipped, arrived>>
    BY ActFacts
  <2>2. pc # "merge" /\ pc # "sweep" /\ pc' \notin Asking
    BY <1>1, <1>3 DEF Acting, Asking, Menu
  <2>3. Types'
    BY <1>1, <1>3, <2>1, <2>2 DEF Types
  <2>4. Subjects'
    BY <1>1, <1>3 DEF Flow, Subjects, Current, Regular
  <2>5. Flow'
    BY <1>1, <1>3, <2>1, <2>2, <2>4, UnderWay DEF Flow
  <2>6. Scene'
    BY <1>1, <1>3, <2>1 DEF Scene
  <2> QED
    BY <2>3, <2>5, <2>6 DEF Base
<1> QED
  BY <1>2, <1>3, ActFacts

LEMMA BaseStep ==
  ASSUME Base, [Next]_vars
  PROVE  Base'
<1>1. Types /\ Flow /\ Scene /\ FsOK
  BY DEF Base, Types
<1>2. CASE Scan /\ pc' # "failed"
  <2>1. pc = "scan"
    BY <1>2 DEF Scan
  <2>2. Shared /\ todo = <<>>
    BY <1>1, <2>1 DEF Scene, Flow
  <2>3. /\ pc' = "next" /\ FsOK' /\ todo' \in Seq(View) /\ Len(todo') <= Cardinality(Path)
        /\ found' = Len(todo')
        /\ UNCHANGED <<sweep, source, copy, call, dry_run, summary, edits, skipped, arrived>>
        /\ \A k \in DOMAIN todo' : Snapshot(todo'[k])
        /\ \A k, l \in DOMAIN todo' : todo'[k].path = todo'[l].path => k = l
    BY <1>1, <1>2, <2>2, Scans DEF uiVars
  <2>4. found' \in Nat
    BY <2>3
  <2>5. Types'
    BY <1>1, <2>1, <2>3, <2>4 DEF Types, Busy, Asking, Menu, Acting
  <2>6. Flow'
    BY <1>1, <2>1, <2>3 DEF Flow, Busy, Asking, Menu, Acting
  <2>7. Scene'
    BY <1>1, <2>3 DEF Scene
  <2> QED
    BY <2>5, <2>6, <2>7 DEF Base
<1>3. CASE ShowDryRun /\ pc' # "failed"
  <2>1. /\ todo # <<>> /\ pc # "sweep" /\ Advance /\ summary' = [summary EXCEPT !.inspected = @ + 1]
        /\ UNCHANGED <<name, node, sweep, dry_run, edits, found, skipped, arrived>>
    BY <1>3 DEF ShowDryRun, Fail, fsVars, history
  <2>2. FsOK' /\ summary' \in [inspected: Nat, resolved: Nat, skipped: Nat]
    BY <1>1, <2>1, FsSame DEF Types
  <2> QED
    BY <2>1, <2>2, AdvanceBase
<1>4. CASE Skip
  <2>1. /\ todo # <<>> /\ pc # "sweep" /\ Advance
        /\ summary' = [summary EXCEPT !.skipped = @ + 1]
        /\ UNCHANGED <<name, node, sweep, dry_run, edits, found, arrived>>
        /\ skipped' = skipped \cup {Current}
    BY <1>1, <1>4 DEF Skip, Flow, Busy, Asking, Menu, fsVars
  <2>2. FsOK' /\ summary' \in [inspected: Nat, resolved: Nat, skipped: Nat]
    BY <1>1, <2>1, FsSame DEF Types
  <2> QED
    BY <2>1, <2>2, AdvanceBase
<1>5. CASE Begins
  BY <1>5, BeginBase
<1>10. CASE Performs
  BY <1>10, ActBase, Performing
<1>6. CASE Finish
  <2>1. /\ pc = "next" /\ todo = <<>>
        /\ UNCHANGED <<name, node, todo, source, copy, call, dry_run, summary, edits, found, skipped, arrived>>
        /\ \/ dry_run /\ pc' = "done" /\ sweep' = sweep
           \/ ~dry_run /\ pc' = "sweep" /\ sweep' = StagedDirectories
    BY <1>6 DEF Finish, fsVars, history
  <2>2. FsOK' /\ sweep' \in Seq(Path)
    BY <1>1, <2>1, FsSame, DirectoriesSorted DEF Types
  <2>3. Types'
    BY <1>1, <2>1, <2>2 DEF Types, Busy, Asking, Menu, Acting
  <2>4. Flow' /\ Scene'
    BY <1>1, <2>1 DEF Flow, Scene, Busy, Asking, Menu, Acting
  <2> QED
    BY <2>3, <2>4 DEF Base
<1>7. CASE Sweep
  <2>1. /\ pc = "sweep" /\ sweep # <<>> /\ sweep' = Tail(sweep)
        /\ UNCHANGED <<pc, todo, source, copy, call, dry_run, summary, edits, found, skipped, arrived>>
    BY <1>7 DEF Sweep, history
  <2>2. FsOK' /\ sweep' \in Seq(Path)
    BY <1>1, <1>7, <2>1, SweepTrees, Tails DEF Types
  <2>3. Types'
    BY <1>1, <2>1, <2>2 DEF Types
  <2>4. Flow' /\ Scene'
    BY <1>1, <2>1 DEF Flow, Scene, Busy, Asking, Menu, Acting
  <2> QED
    BY <2>3, <2>4 DEF Base
<1>8. CASE Swept
  <2>1. /\ pc = "sweep" /\ sweep = <<>> /\ pc' = "done"
        /\ UNCHANGED <<name, node, todo, sweep, source, copy, call, dry_run, summary, edits, found, skipped, arrived>>
    BY <1>8 DEF Swept, fsVars, uiVars, history
  <2>2. Types'
    BY <1>1, <2>1, FsSame DEF Types, Busy, Asking, Menu, Acting
  <2>3. Flow' /\ Scene'
    BY <1>1, <2>1 DEF Flow, Scene, Busy, Asking, Menu, Acting
  <2> QED
    BY <2>2, <2>3 DEF Base
<1>9. CASE UNCHANGED vars
  <2>1. UNCHANGED <<name, node, pc, todo, sweep, source, copy, call, dry_run, summary, edits, found, skipped, arrived>>
    BY <1>9 DEF vars, fsVars, uiVars, history
  <2>2. Types'
    BY <1>1, <2>1, FsSame DEF Types
  <2>3. UNCHANGED <<Current, Dialogues, Subjects, Shared>>
    BY <2>1 DEF Current, Regular, Dialogues, Subjects, Shared
  <2>4. Flow' /\ Scene'
    BY <1>1, <2>1, <2>3 DEF Flow, Scene
  <2> QED
    BY <2>2, <2>4 DEF Base
<1> QED
  BY <1>2, <1>3, <1>4, <1>5, <1>6, <1>7, <1>8, <1>9, <1>10, FailBase, AskBase, IntrudeBase,
     Steps, Zenon

(* The types, the control flow and the snapshots hold together: what the   *)
(* rest of the proofs stands on.                                           *)
THEOREM Grounded == Spec => []Base
<1>1. Init => Base
  BY BaseInit
<1>2. Base /\ [Next]_vars => Base'
  BY BaseStep
<1> QED
  BY <1>1, <1>2, PTL DEF Spec

(* Every variable has its type, and every name refers to an object that    *)
(* has a name: no release of an inode and no new name ever leaves a        *)
(* dangling one.  (the whole session)                                      *)
THEOREM TypeCorrect == Spec => []SessionTypeOK
<1>1. Base => SessionTypeOK
  BY DEF Base, Types, FsOK, Flow, SessionTypeOK, Busy, Asking
<1> QED
  BY <1>1, Grounded, PTL

------------------------------------------------------------------------------
(* The steps once more, as what they change.                               *)

(* The steps once more, as what they change.                               *)

LEMMA FailFacts ==
  ASSUME Fail
  PROVE  /\ pc' = "failed" /\ todo' = <<>> /\ sweep' = <<>> /\ summary' = NoSummary /\ found' = 0
         /\ skipped' = {} /\ arrived' = {} /\ UNCHANGED <<name, node, dry_run, edits>>
BY DEF Fail, Leave, fsVars

LEMMA ScanFacts ==
  ASSUME Base, Scan, pc' # "failed"
  PROVE  /\ pc = "scan" /\ pc' = "next" /\ FsOK /\ Shared
         /\ UNCHANGED <<name, sweep, dry_run, summary, edits, skipped, arrived>>
         /\ DOMAIN todo' = 1 .. Len(todo') /\ Len(todo') \in Nat
<1>1. pc = "scan" /\ FsOK
  BY DEF Scan, Base, Types
<1>2. Shared
  BY <1>1 DEF Base, Scene
<1>3. /\ UNCHANGED <<name, sweep, dry_run, summary, edits, skipped, arrived>>
      /\ pc' = "next" /\ todo' \in Seq(View)
  BY <1>1, <1>2, Scans DEF uiVars
<1> QED
  BY <1>1, <1>2, <1>3

LEMMA ShowFacts ==
  ASSUME Base, ShowDryRun, pc' # "failed"
  PROVE  /\ pc = "next" /\ todo # <<>> /\ dry_run /\ Advance /\ pc' = "next"
         /\ summary' = [summary EXCEPT !.inspected = @ + 1]
         /\ UNCHANGED <<name, node, sweep, dry_run, edits, found, skipped, arrived>>
BY DEF ShowDryRun, Fail, fsVars, history, Advance

LEMMA SkipFacts ==
  ASSUME Base, Skip
  PROVE  /\ pc \in Busy /\ pc \notin Acting /\ todo # <<>> /\ ~dry_run /\ Advance /\ pc' = "next"
         /\ summary' = [summary EXCEPT !.skipped = @ + 1]
         /\ UNCHANGED <<name, node, sweep, dry_run, edits, found, arrived>>
         /\ skipped' = skipped \cup {Current}
<1>1. /\ pc \in Busy /\ pc \notin Acting /\ Advance /\ pc' = "next"
      /\ summary' = [summary EXCEPT !.skipped = @ + 1]
      /\ UNCHANGED <<name, node, sweep, dry_run, edits, found, arrived>>
      /\ skipped' = skipped \cup {Current}
  BY DEF Skip, Busy, Asking, Menu, Acting, fsVars, Advance
<1> QED
  BY <1>1 DEF Base, Flow

LEMMA FinishFacts ==
  ASSUME Finish
  PROVE  /\ pc = "next" /\ todo = <<>>
         /\ UNCHANGED <<name, node, todo, dry_run, summary, edits, found, skipped, arrived>>
         /\ \/ dry_run /\ pc' = "done" /\ sweep' = sweep
            \/ ~dry_run /\ pc' = "sweep" /\ sweep' = StagedDirectories
BY DEF Finish, fsVars, history

LEMMA SweepFacts ==
  ASSUME Base, Sweep
  PROVE  /\ pc = "sweep" /\ sweep # <<>> /\ sweep' = Tail(sweep) /\ ~dry_run /\ todo = <<>>
         /\ UNCHANGED <<pc, todo, dry_run, summary, edits, found, skipped, arrived>>
         /\ FsOK' /\ Ages
         /\ Head(sweep) \in Path
         /\ name'["installed"] = name["installed"]
         /\ \A q \in Path : q # Head(sweep) => name'["staged"][q] = name["staged"][q]
         /\ name'["staged"][Head(sweep)] \in {NoIno, name["staged"][Head(sweep)]}
         /\ Present("staged", Head(sweep)) /\ Below("staged", Head(sweep)) = {} =>
              name'["staged"][Head(sweep)] = NoIno
         /\ ~(Present("staged", Head(sweep)) /\ Below("staged", Head(sweep)) = {}) =>
              UNCHANGED <<name, node>>
         /\ Head(sweep) = sweep[1] /\ 1 \in DOMAIN sweep
         /\ DOMAIN sweep' = 1 .. Len(sweep')
         /\ \A k \in DOMAIN sweep' : k + 1 \in DOMAIN sweep /\ sweep'[k] = sweep[k + 1]
         /\ \A k \in DOMAIN sweep : k # 1 => k - 1 \in DOMAIN sweep' /\ sweep'[k - 1] = sweep[k]
<1>1. /\ pc = "sweep" /\ sweep # <<>> /\ sweep' = Tail(sweep)
      /\ UNCHANGED <<pc, todo, dry_run, summary, edits, found, skipped, arrived>>
  BY DEF Sweep, history
<1>2. FsOK /\ sweep \in Seq(Path) /\ ~dry_run /\ todo = <<>>
  BY <1>1 DEF Base, Types, Flow
<1> QED
  BY <1>1, <1>2, SweepTrees, Tails

LEMMA SweptFacts ==
  ASSUME Swept
  PROVE  /\ pc = "sweep" /\ sweep = <<>> /\ pc' = "done"
         /\ UNCHANGED <<name, node, todo, sweep, dry_run, summary, edits, found, skipped, arrived>>
BY DEF Swept, fsVars, uiVars, history

LEMMA BeginFacts ==
  ASSUME Base, Begins
  PROVE  /\ UNCHANGED <<name, node, todo, sweep, source, copy, dry_run, summary, edits,
                       found, skipped, arrived>>
         /\ pc \in Busy /\ pc \in Asking /\ pc' \in Acting /\ pc' \in Busy
         /\ pc \notin Acting /\ pc \notin {"scan", "next", "sweep", "done", "failed"}
         /\ pc' \notin {"scan", "next", "sweep", "done", "failed"}
         /\ todo # <<>> /\ ~dry_run /\ Fresh
<1>1. /\ UNCHANGED <<name, node, todo, sweep, source, copy, dry_run, summary, edits,
                    found, skipped, arrived>>
      /\ pc \in Asking /\ pc' \in Acting /\ Fresh
  BY DEF Begins
<1>2. /\ pc \in Busy /\ pc' \in Busy
      /\ pc \notin Acting /\ pc \notin {"scan", "next", "sweep", "done", "failed"}
      /\ pc' \notin {"scan", "next", "sweep", "done", "failed"}
  BY <1>1 DEF Busy, Asking, Menu, Acting
<1> QED
  BY <1>1, <1>2 DEF Base, Flow

LEMMA SameFacts ==
  ASSUME UNCHANGED vars
  PROVE  UNCHANGED <<name, node, pc, todo, sweep, source, copy, call, dry_run, summary, edits,
                     found, skipped, arrived>>
BY DEF vars, fsVars, uiVars, history

LEMMA AgesSame ==
  ASSUME UNCHANGED node
  PROVE  Ages
BY DEF Ages

(* Only the scan makes an object younger.                                  *)
LEMMA AgesStep ==
  ASSUME Base, [Next]_vars, ~(Scan /\ pc' # "failed")
  PROVE  Ages
BY AgesSame, FailFacts, AskFacts, IntrudeFacts, ShowFacts, SkipFacts, FinishFacts, SweepFacts,
   SweptFacts, SameFacts, BeginFacts, ActFacts, Performing, Steps

------------------------------------------------------------------------------
(* Dry runs, and the summary.                                              *)

(* A dry run changes neither tree: no step of it does more than look, and  *)
(* the program's own steps take every object back as it was.               *)
(* (rejmerge.8, --dry-run)                                                 *)
THEOREM DryRunIsSafe == Spec => DryRunIsReadOnly
<1> DEFINE Same == name' = name /\ \A i \in Ino : Stamped(node'[i], 0) = Stamped(node[i], 0)
           A == dry_run /\ edits' = edits => Same
<1>1. ASSUME Base, [Next]_vars
      PROVE  A
  <2> SUFFICES ASSUME dry_run, edits' = edits
               PROVE  Same
    OBVIOUS
  <2>1. UNCHANGED <<name, node>> => Same
    OBVIOUS
  <2> HIDE DEF Same, A
  <2>2. CASE Scan /\ pc' # "failed"
    <3>1. name' = name /\ node' = [i \in Ino |-> Stamped(node[i], 0)]
      BY <2>2, Zenon DEF Scan, Fail
    <3>a. FsOK
      BY <1>1 DEF Base, Types
    <3>2. \A i \in Ino : node[i] \in Node \cup {NoNode}
      BY <3>a DEF FsOK
    <3>3. \A i \in Ino : Stamped(Stamped(node[i], 0), 0) = Stamped(node[i], 0)
      BY <3>2, StampedNode
    <3> QED
      BY <3>1, <3>3 DEF Same
  <2>3. CASE Intrudes
    BY <1>1, <2>3, IntrudeFacts
  <2>4. CASE Performs
    BY <1>1, <2>4, UnderWay, Performing DEF Acts
  <2>5. CASE Sweep
    BY <1>1, <2>5, SweepFacts
  <2> QED
    BY <1>1, <2>1, <2>2, <2>3, <2>4, <2>5, FailFacts, AskFacts, ShowFacts, SkipFacts, FinishFacts,
       SweptFacts, SameFacts, BeginFacts, Steps
<1>2. Base /\ [Next]_vars => [A]_vars
  BY <1>1
<1>3. Spec => [][A]_vars
  BY <1>2, Grounded, PTL DEF Spec
<1> QED
  BY <1>3 DEF DryRunIsReadOnly

(* Every candidate is counted when it is reached, and again when it is     *)
(* dealt with.                                                             *)
Counted ==
  /\ pc = "scan" => summary = NoSummary
  /\ pc \in {"next", "sweep", "done"} =>
       /\ summary.inspected + Len(todo) = found
       /\ summary.resolved + summary.skipped = IF dry_run THEN 0 ELSE summary.inspected
  /\ pc \in Busy =>
       /\ summary.inspected + Len(todo) = found + 1
       /\ summary.resolved + summary.skipped + 1 = summary.inspected

LEMMA Sums ==
  \A a, b, c, f, n \in Nat :
    a + n = f + 1 /\ b + c + 1 = a => a + (n - 1) = f /\ b + 1 + c = a /\ b + (c + 1) = a
OBVIOUS

LEMMA CountedStep ==
  ASSUME Base, Counted, [Next]_vars
  PROVE  Counted'
<1>1. /\ summary \in [inspected: Nat, resolved: Nat, skipped: Nat] /\ found \in Nat
      /\ todo \in Seq(View) /\ dry_run \in BOOLEAN /\ Len(todo) \in Nat
      /\ pc \in Busy \cup {"scan", "next", "sweep", "done", "failed"}
      /\ pc \in Busy => ~dry_run
  BY DEF Base, Types, Flow
<1>0. /\ Busy \cap {"scan", "next", "sweep", "done", "failed"} = {} /\ Asking \subseteq Busy
      /\ "scan" \notin Busy /\ "next" \notin Busy /\ "sweep" \notin Busy
      /\ "done" \notin Busy /\ "failed" \notin Busy
  BY DEF Busy, Asking, Menu, Acting
<1>2. CASE Fail
  BY <1>0, <1>2, FailFacts DEF Counted
<1>3. CASE Scan /\ pc' # "failed"
  <2>1. pc = "scan" /\ pc' = "next" /\ summary' = summary /\ dry_run' = dry_run /\ found' = Len(todo')
        /\ Len(todo') \in Nat
    BY <1>3, ScanFacts, Scans
  <2>2. summary' = NoSummary
    BY <2>1 DEF Counted
  <2>3. summary'.inspected = 0 /\ summary'.resolved = 0 /\ summary'.skipped = 0
    BY <2>2 DEF NoSummary
  <2> QED
    BY <1>0, <2>1, <2>3 DEF Counted
<1>4. CASE Asks
  BY <1>0, <1>1, <1>4, AskFacts DEF Counted
<1>5. CASE Intrudes
  BY <1>5, IntrudeFacts DEF Counted
<1>6. CASE ShowDryRun /\ pc' # "failed"
  <2>1. Len(todo') = Len(todo) - 1
    BY <1>6, ShowFacts, Advances
  <2> QED
    BY <1>0, <1>1, <1>6, <2>1, ShowFacts DEF Counted
<1>7. CASE Skip
  <2>1. Len(todo') = Len(todo) - 1
    BY <1>7, SkipFacts, Advances
  <2>2. /\ summary'.inspected = summary.inspected /\ summary'.resolved = summary.resolved
        /\ summary'.skipped = summary.skipped + 1
        /\ pc' = "next" /\ ~dry_run' /\ found' = found
    BY <1>1, <1>7, SkipFacts
  <2>3. /\ summary.inspected + Len(todo) = found + 1
        /\ summary.resolved + summary.skipped + 1 = summary.inspected
    BY <1>7, SkipFacts DEF Counted
  <2> QED
    <3>1. /\ summary.inspected \in Nat /\ summary.resolved \in Nat /\ summary.skipped \in Nat
          /\ found \in Nat /\ Len(todo) \in Nat
      BY <1>1
    <3>2. PICK a, b, c, f, n \in Nat :
            /\ a = summary.inspected /\ b = summary.resolved /\ c = summary.skipped
            /\ f = found /\ n = Len(todo)
      BY <3>1
    <3>3. a + n = f + 1 /\ b + c + 1 = a
      BY <2>3, <3>2
    <3>4. a + (n - 1) = f /\ b + 1 + c = a /\ b + (c + 1) = a
      BY <3>3, Sums
    <3>5. summary'.inspected + Len(todo') = found'
      BY <2>1, <2>2, <3>2, <3>4
    <3>6. summary'.resolved + summary'.skipped = summary'.inspected
      BY <2>2, <3>2, <3>4
    <3> QED
      BY <1>0, <2>2, <3>5, <3>6 DEF Counted
<1>8. CASE Performs
  <2>1. CASE UNCHANGED <<todo, summary>> /\ pc' \in Busy
    BY <1>0, <1>1, <1>8, <2>1, ActFacts, Performing DEF Counted
  <2>2. CASE Advance /\ pc' = "next" /\ summary' = [summary EXCEPT !.resolved = @ + 1]
    <3>1. pc \in Acting /\ todo # <<>>
      BY <1>8, UnderWay, Performing DEF Acts
    <3>2. Len(todo') = Len(todo) - 1
      BY <2>2, <3>1, Advances
    <3>3. /\ summary'.inspected = summary.inspected /\ summary'.resolved = summary.resolved + 1
          /\ summary'.skipped = summary.skipped
          /\ pc' = "next" /\ ~dry_run' /\ found' = found /\ pc \in Busy
      BY <1>1, <1>8, <2>2, ActFacts, Performing
    <3>4. /\ summary.inspected + Len(todo) = found + 1
          /\ summary.resolved + summary.skipped + 1 = summary.inspected
      BY <3>3 DEF Counted
    <3> QED
      <4>1. /\ summary.inspected \in Nat /\ summary.resolved \in Nat /\ summary.skipped \in Nat
            /\ found \in Nat /\ Len(todo) \in Nat
        BY <1>1
      <4>2. PICK a, b, c, f, n \in Nat :
              /\ a = summary.inspected /\ b = summary.resolved /\ c = summary.skipped
              /\ f = found /\ n = Len(todo)
        BY <4>1
      <4>3. a + n = f + 1 /\ b + c + 1 = a
        BY <3>4, <4>2
      <4>4. a + (n - 1) = f /\ b + 1 + c = a /\ b + (c + 1) = a
        BY <4>3, Sums
      <4>5. summary'.inspected + Len(todo') = found'
        BY <3>2, <3>3, <4>2, <4>4
      <4>6. summary'.resolved + summary'.skipped = summary'.inspected
        BY <3>3, <4>2, <4>4
      <4> QED
        BY <1>0, <3>3, <4>5, <4>6 DEF Counted
  <2> QED
    BY <1>8, <2>1, <2>2, ActFacts, Performing
<1>10. CASE Begins
  BY <1>0, <1>1, <1>10, BeginFacts DEF Counted
<1>9. CASE Finish \/ Sweep \/ Swept \/ UNCHANGED vars
  BY <1>0, <1>9, FinishFacts, SweepFacts, SweptFacts, SameFacts DEF Counted
<1> QED
  BY <1>2, <1>3, <1>4, <1>5, <1>6, <1>7, <1>8, <1>9, <1>10, Steps

(* A session that finishes has inspected every candidate of its scan and,  *)
(* unless it was a dry run, has resolved or skipped each one.              *)
(* (run_summary, and the return value of every handler)                    *)
THEOREM SummaryCorrect == Spec => []SummaryAccounts
<1>1. Init => Counted
  BY DEF Init, Counted, Busy, Asking, Menu, Acting
<1>2. Base /\ Counted /\ [Next]_vars => Counted'
  BY CountedStep
<1>3. Base /\ Counted => SummaryAccounts
  <2> SUFFICES ASSUME Base, Counted, pc = "done"
               PROVE  /\ summary.inspected = found
                      /\ summary.resolved + summary.skipped = IF dry_run THEN 0 ELSE found
    BY DEF SummaryAccounts
  <2>1. summary \in [inspected: Nat, resolved: Nat, skipped: Nat] /\ found \in Nat /\ Len(todo) = 0
    BY DEF Base, Types, Flow
  <2> QED
    BY <2>1 DEF Counted
<1> QED
  BY <1>1, <1>2, <1>3, Grounded, PTL DEF Spec

------------------------------------------------------------------------------
------------------------------------------------------------------------------
(* The calls under way.                                                    *)

(* What a call may still count on after its validation, whatever other     *)
(* processes do: nobody takes installed names away, and who puts something *)
(* at a staged name puts a file there.                                     *)
Held ==
  pc \in Acting =>
    /\ ~Relic(Current.cd) => Present("installed", It)
    /\ Current.cd.staged.type # "directory" => ~IsDirectory("staged", It)
    /\ pc = "rename" => name["installed"][It] # name["staged"][It]
    /\ pc = "dress" /\ call.op = "install" => name["staged"][It] = NoIno \/ It \in arrived

(* A directory whose name stays is still a directory.                      *)
LEMMA StaysDirectory ==
  ASSUME FsOK, FsOK', Ages, NEW t \in Tree, NEW p \in Path, name'[t][p] = name[t][p]
  PROVE  /\ IsDirectory(t, p)' <=> IsDirectory(t, p)
         /\ Present(t, p)' <=> Present(t, p)
<1>1. CASE Present(t, p)
  <2>1. name[t][p] \in Ino /\ node[name[t][p]] # NoNode /\ node'[name[t][p]] # NoNode
    BY <1>1 DEF FsOK, Present
  <2>2. node'[name[t][p]].type = node[name[t][p]].type
    BY <2>1 DEF Ages
  <2> QED
    BY <2>2 DEF IsDirectory, Present, At
<1>2. CASE ~Present(t, p)
  <2>1. ~IsDirectory(t, p) /\ ~Present(t, p)' /\ ~IsDirectory(t, p)'
    BY <1>2 DEF IsDirectory, Present
  <2> QED
    BY <1>2, <2>1
<1> QED
  BY <1>1, <1>2

(* What validation finds.                                                  *)
LEMMA BeginHolds ==
  ASSUME Base, Begins, NEW t \in Tree
  PROVE  /\ It \in Path /\ Current \in View /\ Snapshot(Current)
         /\ IF Current.was[t] = NoNode THEN name[t][It] = NoIno
            ELSE /\ name[t][It] \in Ino /\ name[t][It] # NoIno
                 /\ name[t][It] = Current.cd[t].inode
                 /\ At(t, It) \in Node /\ At(t, It) # NoNode
                 /\ At(t, It).type = Current.was[t].type
                 /\ Current.was[t].type # "directory" => At(t, It).ctime = 0
<1>1. todo # <<>> /\ Fresh /\ FsOK
  BY BeginFacts DEF Base, Types
<1>2. It \in Path /\ Current \in View /\ Snapshot(Current) /\ It = Current.path /\ StillMatches(Current)
  BY <1>1, InHand DEF Fresh
<1> QED
  BY <1>1, <1>2, FreshFacts

LEMMA HeldBegins ==
  ASSUME Base, Begins
  PROVE  Held'
<1>1. /\ "installed" \in Tree /\ "staged" \in Tree /\ Current \in View /\ Snapshot(Current)
      /\ Current.cd["installed"] = Current.cd.installed /\ Current.cd["staged"] = Current.cd.staged
  BY BeginHolds, Views DEF Tree
<1>2. UNCHANGED <<name, node, todo, Current, It, arrived>>
  BY BeginFacts DEF Current, It
<1>3. ~Relic(Current.cd) => Present("installed", It)
  BY <1>1, BeginHolds, RelicIsMissing DEF Present
<1>4. Current.cd.staged.type # "directory" => ~IsDirectory("staged", It)
  BY <1>1, BeginHolds DEF Snapshot, IsDirectory
<1>5. call'.op = "install" => name["installed"][It] # name["staged"][It]
  <2> SUFFICES ASSUME call'.op = "install"
               PROVE  name["installed"][It] # name["staged"][It]
    OBVIOUS
  <2>1. ~Current.cd.equal /\ ~Relic(Current.cd)
    BY DEF Begins
  <2>2. Current.cd.installed.inode # Current.cd.staged.inode
    BY <1>1, <2>1 DEF Snapshot
  <2>3. Current.was["installed"] # NoNode /\ Current.was["staged"] # NoNode
    BY <1>1, <2>1, RelicIsMissing DEF Snapshot
  <2> QED
    BY <1>1, <2>2, <2>3, BeginHolds
<1>6. (pc' = "rename" => call'.op = "install") /\ ~(pc' = "dress" /\ call'.op = "install")
  BY DEF Begins, Starts
<1> QED
  BY <1>2, <1>3, <1>4, <1>5, <1>6 DEF Held, Present, IsDirectory, At

LEMMA HeldActs ==
  ASSUME Base, Held, Performs, pc' \in Acting
  PROVE  Held'
<1>1. /\ pc \in Acting /\ Works(It) /\ UNCHANGED <<todo, call, arrived>>
      /\ FsOK /\ FsOK' /\ Ages /\ It \in Path /\ "staged" \in Tree /\ "installed" \in Tree
  <2>1. Acts /\ pc \in Acting
    BY Performing DEF Acts
  <2> QED
    BY <2>1, ActFacts, UnderWay DEF Acting, Tree
<1>2. UNCHANGED <<Current, It>>
  BY <1>1 DEF Current, It
<1>3. /\ ~Relic(Current.cd) => Present("installed", It)
      /\ Current.cd.staged.type # "directory" => ~IsDirectory("staged", It)
      /\ pc = "rename" => name["installed"][It] # name["staged"][It]
  BY <1>1 DEF Held
<1>4. Current.cd.staged.type # "directory" => ~IsDirectory("staged", It)'
  <2>1. name'["staged"][It] = NoIno => ~IsDirectory("staged", It)'
    BY <1>2 DEF IsDirectory, Present
  <2>2. name'["staged"][It] = name["staged"][It] =>
          (Current.cd.staged.type # "directory" => ~IsDirectory("staged", It)')
    <3> SUFFICES ASSUME name'["staged"][It] = name["staged"][It],
                        Current.cd.staged.type # "directory"
                 PROVE  ~IsDirectory("staged", It)'
      OBVIOUS
    <3>1. PICK p \in Path : p = It
      BY <1>1
    <3>2. IsDirectory("staged", p)' <=> IsDirectory("staged", p)
      BY <1>1, <3>1, StaysDirectory
    <3> QED
      BY <1>2, <1>3, <3>1, <3>2 DEF IsDirectory, Present, At
  <2> QED
    BY <1>1, <2>1, <2>2 DEF Works
<1>5. CASE Dressed
  BY <1>1, <1>2, <1>3, <1>4, <1>5 DEF Dressed, Goes, Returns, Advance, Held, Present, Acting
<1>6. CASE Retired
  BY <1>6 DEF Retired, Returns, Advance, Acting
<1>7. CASE Renamed
  <2>1. /\ pc' = "dress" /\ name'["installed"][It] # NoIno /\ name'["staged"][It] = NoIno
    BY <1>3, <1>7 DEF Renamed, Goes
  <2> QED
    BY <1>2, <1>4, <2>1 DEF Held, Present
<1>8. CASE Published
  <2>1. pc' = "retire" /\ name'["installed"][It] # NoIno
    BY <1>1, <1>8, FreeMeansFree DEF Published, Goes
  <2> QED
    BY <1>2, <1>4, <2>1 DEF Held, Present
<1>9. CASE Made
  <2>1. pc' = "move" /\ pc = "move"
    BY <1>9 DEF Made, Goes
  <2>2. Relic(Current.cd)
    BY <1>1, <2>1, UnderWay DEF Stages, Starts, Subjects
  <2> QED
    BY <1>2, <1>4, <2>1, <2>2 DEF Held
<1>10. CASE Moved
  BY <1>10 DEF Moved, Returns, Advance, Acting
<1> QED
  BY <1>5, <1>6, <1>7, <1>8, <1>9, <1>10 DEF Performs

LEMMA HeldIntrudes ==
  ASSUME Base, Held, Intrudes, pc \in Acting
  PROVE  Held'
<1>1. /\ UNCHANGED <<pc, todo, call>> /\ name'["installed"] = name["installed"]
      /\ FsOK /\ FsOK' /\ Ages /\ It \in Path /\ "staged" \in Tree /\ "installed" \in Tree
  BY IntrudeFacts, UnderWay DEF Tree
<1>2. UNCHANGED <<Current, It>>
  BY <1>1 DEF Current, It
<1>3. PICK p \in Path : p = It
  BY <1>1
<1>4. \/ /\ name'["staged"][p] = name["staged"][p] /\ arrived \subseteq arrived'
      \/ /\ name'["staged"][p] \in Unused /\ node'[name'["staged"][p]].type = "regular"
         /\ p \in arrived'
  BY IntrudeFacts
<1>5. IsDirectory("staged", p)' => IsDirectory("staged", p)
  BY <1>1, <1>4, StaysDirectory DEF IsDirectory, At
<1>6. name["installed"][p] # name["staged"][p] => name'["installed"][p] # name'["staged"][p]
  BY <1>1, <1>4, FreeMeansFree
<1> QED
  BY <1>1, <1>2, <1>3, <1>4, <1>5, <1>6 DEF Held, Present, IsDirectory, At

(* How a call gets under way and what happens in its course.               *)
LEMMA ComesToAct ==
  ASSUME Base, [Next]_vars, pc' \in Acting
  PROVE  Begins \/ (pc \in Acting /\ (Performs \/ Intrudes \/ UNCHANGED vars))
<1>1. pc' \notin {"failed", "next", "sweep", "done"} /\ pc' \notin Asking
  BY DEF Acting, Asking, Menu
<1>2. Begins \/ Performs \/ Intrudes \/ UNCHANGED vars
  BY <1>1, FailFacts, AskFacts, ScanFacts, ShowFacts, SkipFacts, FinishFacts, SweepFacts,
     SweptFacts, Steps
<1>3. Performs => pc \in Acting
  BY Performing DEF Acts
<1> QED
  BY <1>2, <1>3, IntrudeFacts, SameFacts

LEMMA WhileActing ==
  ASSUME Base, [Next]_vars, pc \in Acting
  PROVE  Fail \/ Performs \/ Intrudes \/ UNCHANGED vars
<1>1. pc \notin {"scan", "next", "sweep"} /\ pc \notin Asking
  BY DEF Acting, Asking, Menu
<1> QED
  BY <1>1, AskFacts, BeginFacts, ScanFacts, ShowFacts, SkipFacts, FinishFacts, SweepFacts,
     SweptFacts, Steps

LEMMA HeldStep ==
  ASSUME Base, Held, [Next]_vars
  PROVE  Held'
<1> SUFFICES ASSUME pc' \in Acting
             PROVE  Held'
  BY DEF Held
<1>1. CASE UNCHANGED vars
  BY <1>1, SameFacts DEF Held, Current, It, Present, IsDirectory, At
<1> QED
  BY <1>1, ComesToAct, HeldBegins, HeldActs, HeldIntrudes

(* A call that validated its candidate keeps an installed name to dress or *)
(* to replace, and never meets a directory where it validated none.        *)
THEOREM CallsAreHeld == Spec => []Held
<1>1. Init => Held
  BY DEF Init, Held, Acting
<1>2. Base /\ Held /\ [Next]_vars => Held'
  BY HeldStep
<1> QED
  BY <1>1, <1>2, Grounded, PTL DEF Spec

------------------------------------------------------------------------------
(* Every directory on the way to a name is there, in both trees.           *)

Trees == \A t \in Tree : WellFormed(t)

(* A step that moves no name keeps it.                                     *)
LEMMA TreesSame ==
  ASSUME FsOK, FsOK', Ages, Trees, UNCHANGED name
  PROVE  Trees'
<1> SUFFICES ASSUME NEW t \in Tree, NEW p \in Path, name'[t][p] # NoIno, NEW q \in Above[p]
             PROVE  name'[t][q] # NoIno /\ node'[name'[t][q]].type = "directory"
  BY DEF Trees, WellFormed, IsDirectory, Present, At
<1>1. q \in Path
  BY PathAssumption
<1>2. name[t][q] # NoIno /\ node[name[t][q]].type = "directory"
  BY DEF Trees, WellFormed, IsDirectory, Present, At
<1>3. name[t][q] \in Ino /\ node[name[t][q]] # NoNode /\ node'[name[t][q]] # NoNode
  BY <1>1, <1>2 DEF FsOK
<1> QED
  BY <1>2, <1>3 DEF Ages

(* So does one that takes names away below which there is nothing.         *)
LEMMA TreesShrink ==
  ASSUME FsOK, FsOK', Ages, NEW t \in Tree, WellFormed(t), NEW p \in Path,
         \A q \in Path : q # p => name'[t][q] = name[t][q],
         name'[t][p] \in {NoIno, name[t][p]},
         name'[t][p] # name[t][p] => ~IsDirectory(t, p) \/ Below(t, p) = {}
  PROVE  WellFormed(t)'
<1> SUFFICES ASSUME NEW r \in Path, Present(t, r)', NEW q \in Above[r]
             PROVE  IsDirectory(t, q)'
  BY DEF WellFormed
<1>1. q \in Path
  BY PathAssumption
<1>2. Present(t, r) /\ name'[t][r] = name[t][r]
  BY DEF Present
<1>3. IsDirectory(t, q)
  BY <1>2 DEF WellFormed
<1>4. name'[t][q] = name[t][q]
  <2>1. r \in Below(t, q)
    BY <1>2 DEF Below
  <2> QED
    BY <1>1, <1>3, <2>1
<1> QED
  BY <1>1, <1>3, <1>4, StaysDirectory

(* And one that puts something where nothing is below, and everything      *)
(* above is a directory.                                                   *)
LEMMA TreesPlace ==
  ASSUME FsOK, FsOK', Ages, NEW t \in Tree, WellFormed(t), NEW p \in Path,
         \A q \in Path : q # p => name'[t][q] = name[t][q],
         Below(t, p) = {}, \A q \in Above[p] : IsDirectory(t, q)
  PROVE  WellFormed(t)'
<1> SUFFICES ASSUME NEW r \in Path, Present(t, r)', NEW q \in Above[r]
             PROVE  IsDirectory(t, q)'
  BY DEF WellFormed
<1>1. q \in Path /\ p \notin Above[p]
  BY PathAssumption
<1>2. CASE r = p
  <2>1. IsDirectory(t, q) /\ name'[t][q] = name[t][q]
    BY <1>1, <1>2
  <2> QED
    BY <1>1, <2>1, StaysDirectory
<1>3. CASE r # p
  <2>1. Present(t, r)
    BY <1>3 DEF Present
  <2>2. IsDirectory(t, q)
    BY <2>1 DEF WellFormed
  <2>3. q # p
    BY <2>1 DEF Below
  <2> QED
    BY <1>1, <2>2, <2>3, StaysDirectory
<1> QED
  BY <1>2, <1>3

(* Nothing is below what is missing or not a directory.                    *)
LEMMA NothingBelow ==
  ASSUME NEW t \in Tree, WellFormed(t), NEW p \in Path, ~IsDirectory(t, p)
  PROVE  Below(t, p) = {}
BY DEF WellFormed, Below

(* What the current candidate is about.                                    *)
LEMMA TreesStep ==
  ASSUME Base, Held, Trees, [Next]_vars
  PROVE  Trees'
<1>1. FsOK /\ WellFormed("installed") /\ WellFormed("staged") /\ Tree = {"installed", "staged"}
  BY DEF Base, Types, Trees, Tree
<1>2. FsOK'
  BY BaseStep DEF Base, Types
<1>3. CASE UNCHANGED <<name, node>>
  BY <1>1, <1>2, <1>3, AgesSame, TreesSame
<1>4. CASE Scan /\ pc' # "failed"
  <2>1. FsOK /\ Shared
    BY <1>4, ScanFacts
  <2>2. name' = name /\ \A i \in Ino : node[i] # NoNode => node'[i].type = node[i].type
    BY <1>4, <2>1, Scans
  <2> SUFFICES ASSUME NEW t \in Tree, NEW p \in Path, name'[t][p] # NoIno, NEW q \in Above[p]
               PROVE  name'[t][q] # NoIno /\ node'[name'[t][q]].type = "directory"
    BY DEF Trees, WellFormed, IsDirectory, Present, At
  <2>3. q \in Path
    BY PathAssumption
  <2>4. name[t][q] # NoIno /\ node[name[t][q]].type = "directory"
    BY <2>2 DEF Trees, WellFormed, IsDirectory, Present, At
  <2>5. name[t][q] \in Ino /\ node[name[t][q]] # NoNode
    BY <2>1, <2>3, <2>4 DEF FsOK
  <2> QED
    BY <2>2, <2>4, <2>5
<1>5. CASE Intrudes
  <2>1. Ages /\ name'["installed"] = name["installed"]
    BY <1>5, IntrudeFacts
  <2>2. CASE name' = name
    BY <1>1, <1>2, <2>1, <2>2, TreesSame
  <2>3. ASSUME NEW p \in Path,
               \A q \in Path : q # p => name'["staged"][q] = name["staged"][q],
               \/ ~IsDirectory("staged", p) /\ \A q \in Above[p] : IsDirectory("staged", q)
               \/ IsDirectory("staged", p) /\ Below("staged", p) = {}
        PROVE  Trees'
    <3>1. Below("staged", p) = {} /\ \A q \in Above[p] : IsDirectory("staged", q)
      BY <1>1, <2>3, NothingBelow DEF IsDirectory, WellFormed, Tree
    <3>2. WellFormed("staged")'
      BY <1>1, <1>2, <2>1, <2>3, <3>1, TreesPlace
    <3>3. CASE Path # {}
      <4>1. PICK r \in Path : TRUE
        BY <3>3
      <4> QED
        BY <1>1, <1>2, <2>1, <3>2, TreesShrink DEF Trees
    <3> QED
      BY <3>2, <3>3 DEF Trees, WellFormed
  <2> QED
    BY <1>5, <2>2, <2>3, IntrudeFacts
<1>6. ASSUME Performs
      PROVE  /\ pc \in Acting /\ It \in Path /\ Ages
             /\ \A q \in Path : q # It => name'["staged"][q] = name["staged"][q]
             /\ name'["staged"][It] \in {NoIno, name["staged"][It]}
             /\ ~Relic(Current.cd) => Present("installed", It)
             /\ Current.cd.staged.type # "directory" => ~IsDirectory("staged", It)
  <2>1. pc \in Acting /\ Works(It)
    BY <1>6, Performing DEF Acts
  <2> QED
    BY <2>1, UnderWay DEF Works, Held
<1>7. CASE Dressed
  BY <1>1, <1>2, <1>6, <1>7, TreesSame DEF Dressed, Performs
<1>8. CASE Retired
  <2>1. Performs /\ name'["installed"] = name["installed"]
        /\ (name'["staged"][It] # name["staged"][It] => Below("staged", It) = {})
    BY <1>8 DEF Performs, Retired
  <2>2. WellFormed("staged")'
    BY <1>1, <1>2, <1>6, <2>1, TreesShrink
  <2>3. WellFormed("installed")'
    BY <1>1, <1>2, <1>6, <2>1, TreesShrink
  <2> QED
    BY <1>1, <2>2, <2>3 DEF Trees
<1>9. CASE Renamed \/ Published
  <2>1. /\ Performs /\ \A q \in Path : q # It => name'["installed"][q] = name["installed"][q]
        /\ ~IsDirectory("installed", It) /\ pc \in {"rename", "publish"}
        /\ name'["staged"][It] # name["staged"][It] => ~IsDirectory("staged", It)
    BY <1>9 DEF Performs, Renamed, Published
  <2>2. ~Relic(Current.cd)
    BY <1>6, <2>1, UnderWay DEF Stages, Starts, Subjects
  <2>3. WellFormed("staged")'
    BY <1>1, <1>2, <1>6, <2>1, TreesShrink
  <2>4. Below("installed", It) = {} /\ \A q \in Above[It] : IsDirectory("installed", q)
    BY <1>1, <1>6, <2>1, <2>2, NothingBelow DEF WellFormed
  <2>5. WellFormed("installed")'
    BY <1>1, <1>2, <1>6, <2>1, <2>4, TreesPlace
  <2> QED
    BY <1>1, <2>3, <2>5 DEF Trees
<1>10. CASE Made \/ Moved
  <2>1. /\ Performs /\ pc = "move"
        /\ \E q \in Path :
             /\ ~Present("installed", q) /\ \A r \in Above[q] : IsDirectory("installed", r)
             /\ \A r \in Path : r # q => name'["installed"][r] = name["installed"][r]
    BY <1>10 DEF Performs, Made, Moved, Makes
  <2>2. ~IsDirectory("staged", It)
    <3>1. Relic(Current.cd) /\ Current \in View /\ Snapshot(Current)
      BY <1>6, <2>1, UnderWay DEF Stages, Starts, Subjects
    <3> QED
      BY <1>6, <2>1, <3>1, RelicIsMissing
  <2>3. WellFormed("staged")'
    BY <1>1, <1>2, <1>6, <2>1, <2>2, TreesShrink
  <2>4. PICK q \in Path :
          /\ ~Present("installed", q) /\ \A r \in Above[q] : IsDirectory("installed", r)
          /\ \A r \in Path : r # q => name'["installed"][r] = name["installed"][r]
    BY <2>1
  <2>5. Below("installed", q) = {}
    BY <1>1, <2>4, NothingBelow DEF IsDirectory
  <2>6. WellFormed("installed")'
    BY <1>1, <1>2, <1>6, <2>1, <2>4, <2>5, TreesPlace
  <2> QED
    BY <1>1, <2>3, <2>6 DEF Trees
<1>11. CASE Sweep
  <2>1. WellFormed("staged")'
    BY <1>1, <1>2, <1>11, SweepFacts, TreesShrink
  <2>2. WellFormed("installed")'
    BY <1>1, <1>2, <1>11, SweepFacts, TreesShrink
  <2> QED
    BY <1>1, <2>1, <2>2 DEF Trees
<1> QED
  BY <1>3, <1>4, <1>5, <1>7, <1>8, <1>9, <1>10, <1>11, FailFacts, AskFacts, BeginFacts, ShowFacts,
     SkipFacts, FinishFacts, SweptFacts, SameFacts, Steps DEF Performs

(* No call, whatever it is made with, leaves a name without the            *)
(* directories it is in.  (the directory checks of every operation)        *)
THEOREM Rooted == Spec => []Trees
<1>1. Init => Trees
  BY InitTrees DEF Trees
<1>2. Base /\ Held /\ Trees /\ [Next]_vars => Trees'
  BY TreesStep
<1> QED
  BY <1>1, <1>2, Grounded, CallsAreHeld, PTL DEF Spec

------------------------------------------------------------------------------
(* The order of the candidates.                                            *)
------------------------------------------------------------------------------
(* The order of the candidates.                                            *)

(* The candidates are in the order of the sort, and one above another is a *)
(* directory.                                                              *)
Lined ==
  \A k, l \in DOMAIN todo :
    /\ k < l => Before(todo[k], todo[l])
    /\ todo[k].path \in Above[todo[l].path] => todo[k].cd.staged.type = "directory"

LEMMA LinedStep ==
  ASSUME Base, Trees, Lined, [Next]_vars
  PROVE  Lined'
<1>1. CASE UNCHANGED todo
  BY <1>1 DEF Lined
<1>2. CASE todo' = <<>>
  BY <1>2 DEF Lined
<1>3. ASSUME todo # <<>>, Advance
      PROVE  Lined'
  <2> SUFFICES ASSUME NEW k \in DOMAIN todo', NEW l \in DOMAIN todo'
               PROVE  /\ k < l => Before(todo'[k], todo'[l])
                      /\ todo'[k].path \in Above[todo'[l].path] => todo'[k].cd.staged.type = "directory"
    BY DEF Lined, Before
  <2>1. /\ k \in Nat /\ l \in Nat /\ k + 1 \in DOMAIN todo /\ l + 1 \in DOMAIN todo
        /\ todo'[k] = todo[k + 1] /\ todo'[l] = todo[l + 1]
    BY <1>3, Advances
  <2>2. k < l => k + 1 < l + 1
    BY <2>1
  <2> HIDE DEF Before
  <2> QED
    BY <2>1, <2>2 DEF Lined
<1>4. CASE Scan /\ pc' # "failed"
  <2>1. FsOK /\ Shared
    BY <1>4, ScanFacts
  <2>2. /\ \A k \in DOMAIN todo' :
             /\ todo'[k] = Scanned(todo'[k].path) /\ todo'[k].path \in Path
             /\ Present("staged", todo'[k].path)
        /\ \A k, l \in DOMAIN todo' : k < l => Before(todo'[k], todo'[l])
    BY <1>4, <2>1, Scans
  <2>3. ASSUME NEW k \in DOMAIN todo', NEW l \in DOMAIN todo', todo'[k].path \in Above[todo'[l].path]
        PROVE  todo'[k].cd.staged.type = "directory"
    <3> DEFINE p == todo'[k].path
    <3>1. p \in Path /\ todo'[k] = Scanned(p) /\ IsDirectory("staged", p)
      BY <2>2, <2>3 DEF Trees, WellFormed, Tree
    <3> HIDE DEF p
    <3>2. Scanned(p).cd.staged = [Sees("staged", p) EXCEPT !.ctime = 0]
      BY <2>1, <3>1, ScannedFields
    <3>3. [Sees("staged", p) EXCEPT !.ctime = 0].type = "directory"
      BY <2>1, <3>1, SeenFingerprint DEF IsDirectory, Tree
    <3> QED
      BY <3>1, <3>2, <3>3
  <2> QED
    BY <2>2, <2>3 DEF Lined, Before
<1> QED
  BY <1>1, <1>2, <1>3, <1>4, FailFacts, AskFacts, IntrudeFacts, ShowFacts, SkipFacts, FinishFacts,
     SweepFacts, SweptFacts, SameFacts, BeginFacts, ActFacts, Performing, Steps

(* Directories are dealt with after everything below them: the sort puts   *)
(* the deeper first, and no step changes the order.                        *)
(* (the sort that ends scan)                                               *)
THEOREM ChildrenBeforeParents == Spec => []ChildrenFirst
<1>1. Init => Lined
  BY DEF Init, Lined
<1>2. Base /\ Trees /\ Lined /\ [Next]_vars => Lined'
  BY LinedStep
<1>3. Base /\ Lined => ChildrenFirst
  <2> SUFFICES ASSUME Base, Lined, NEW k \in DOMAIN todo, NEW l \in DOMAIN todo,
                      todo[k].path \in Above[todo[l].path], ~(l < k)
               PROVE  FALSE
    BY DEF ChildrenFirst
  <2>1. k \in Nat /\ l \in Nat /\ todo[k] \in View /\ todo[l] \in View
    BY DEF Base, Types
  <2>2. todo[k].path \in Path /\ todo[l].path \in Path
    BY <2>1, Views
  <2>3. todo[k].path # todo[l].path
    BY <2>2, PathAssumption
  <2>4. k < l
    BY <2>1, <2>3
  <2>5. Before(todo[k], todo[l]) /\ todo[k].cd.staged.type = "directory"
    BY <2>4 DEF Lined
  <2>6. /\ Cardinality(Above[todo[k].path]) < Cardinality(Above[todo[l].path])
        /\ Cardinality(Above[todo[k].path]) \in Nat /\ Cardinality(Above[todo[l].path]) \in Nat
    BY <2>2, Depths
  <2> QED
    BY <2>5, <2>6 DEF Before
<1> QED
  BY <1>1, <1>2, <1>3, Grounded, Rooted, PTL DEF Spec

------------------------------------------------------------------------------
(* What the administrator was shown.                                       *)

(* An object that still has the time of the scan is as it was shown.       *)
Genuine(v, t, nd) ==
  LET i == v.cd[t].inode
  IN v.was[t] # NoNode /\ nd[i] # NoNode /\ nd[i].ctime = 0 => nd[i] = v.was[t]

Witnessed == \A k \in DOMAIN todo : \A t \in Tree : Genuine(todo[k], t, node)

(* Time never makes an object look like an earlier one.                    *)
LEMMA GenuineStays ==
  ASSUME NEW v, Snapshot(v), NEW t \in Tree, Genuine(v, t, node), Ages
  PROVE  Genuine(v, t, node')
<1> DEFINE i == v.cd[t].inode
<1> SUFFICES ASSUME v.was[t] # NoNode, node'[i] # NoNode, node'[i].ctime = 0
             PROVE  node'[i] = v.was[t]
  BY DEF Genuine
<1>1. i \in Ino
  BY DEF Snapshot
<1>2. node[i] # NoNode /\ node'[i] = node[i]
  BY <1>1 DEF Ages
<1> QED
  BY <1>2 DEF Genuine

LEMMA WitnessedStep ==
  ASSUME Base, Witnessed, [Next]_vars
  PROVE  Witnessed'
<1>1. CASE todo' = <<>>
  BY <1>1 DEF Witnessed
<1>2. ASSUME Ages
      PROVE  \A k \in DOMAIN todo, t \in Tree : Genuine(todo[k], t, node')
  <2> TAKE k \in DOMAIN todo, t \in Tree
  <2>1. Snapshot(todo[k]) /\ Genuine(todo[k], t, node)
    BY DEF Witnessed, Base, Scene
  <2> QED
    BY <1>2, <2>1, GenuineStays
<1>3. CASE UNCHANGED todo /\ Ages
  BY <1>2, <1>3 DEF Witnessed
<1>4. CASE todo # <<>> /\ Advance /\ Ages
  <2>1. \A k \in DOMAIN todo' : k + 1 \in DOMAIN todo /\ todo'[k] = todo[k + 1]
    BY <1>4, Advances
  <2> QED
    BY <1>2, <1>4, <2>1 DEF Witnessed
<1>5. CASE Scan /\ pc' # "failed"
  <2>1. FsOK /\ Shared
    BY <1>5, ScanFacts
  <2>2. /\ \A k \in DOMAIN todo' : todo'[k] = Scanned(todo'[k].path) /\ todo'[k].path \in Path
        /\ \A i \in Ino : node[i] # NoNode => node'[i] = Stamped(node[i], 0)
    BY <1>5, <2>1, Scans
  <2>3. ASSUME NEW p \in Path, NEW t \in Tree
        PROVE  Genuine(Scanned(p), t, node')
    <3> DEFINE v == Scanned(p)
    <3>1. v.cd[t] = [Sees(t, p) EXCEPT !.ctime = 0]
          /\ v.was[t] = IF Present(t, p) THEN Stamped(At(t, p), 0) ELSE NoNode
      BY <2>1, ScannedFields DEF Tree
    <3> HIDE DEF v
    <3>2. CASE Present(t, p)
      <4>1. v.cd[t].inode = name[t][p] /\ name[t][p] \in Ino /\ At(t, p) # NoNode
        BY <2>1, <3>1, <3>2, SeenFingerprint
      <4> QED
        BY <2>2, <3>1, <3>2, <4>1 DEF Genuine, At, v
    <3>3. CASE ~Present(t, p)
      BY <3>1, <3>3 DEF Genuine, v
    <3> QED
      BY <3>2, <3>3
  <2> QED
    BY <2>2, <2>3 DEF Witnessed
<1> QED
  BY <1>1, <1>3, <1>4, <1>5, AgesStep, FailFacts, AskFacts, IntrudeFacts, ShowFacts, SkipFacts,
     FinishFacts, SweepFacts, SweptFacts, SameFacts, BeginFacts, ActFacts, Performing, Steps

(* The time of the scan on an object proves that it is what was shown.     *)
(* (candidate_access::fingerprint_matches)                                 *)
THEOREM Remembered == Spec => []Witnessed
<1>1. Init => Witnessed
  BY DEF Init, Witnessed
<1>2. Base /\ Witnessed /\ [Next]_vars => Witnessed'
  BY WitnessedStep
<1> QED
  BY <1>1, <1>2, Grounded, PTL DEF Spec

(* What the current candidate says is what a call finds.                   *)
(* An object that is still what the administrator was shown stays so while *)
(* its name does and others leave it alone.                                *)
LEMMA StillShownStays ==
  ASSUME FsOK, FsOK', Ages, UNCHANGED <<todo, edits>>, It \in Path,
         NEW t \in Tree, name'[t][It] = name[t][It], StillShown(t)
  PROVE  StillShown(t)'
<1>1. UNCHANGED <<Current, It>>
  BY DEF Current, It
<1>2. CASE Current.was[t] = NoNode
  BY <1>1, <1>2 DEF StillShown, Present
<1>3. CASE Current.was[t] # NoNode
  <2>1. name[t][It] # NoIno /\ name[t][It] \in Ino
    BY <1>3 DEF StillShown, Present, FsOK
  <2>2. node[name[t][It]] # NoNode /\ node'[name[t][It]] # NoNode
    <3> DEFINE i == name[t][It]
    <3>1. \E u \in Tree, p \in Path : name[u][p] = i
      OBVIOUS
    <3>2. \E u \in Tree, p \in Path : name'[u][p] = i
      OBVIOUS
    <3> HIDE DEF i
    <3>3. node[i] # NoNode
      BY <2>1, <3>1 DEF FsOK, i
    <3>4. node'[i] # NoNode
      BY <2>1, <3>2 DEF FsOK, i
    <3> QED
      BY <3>3, <3>4 DEF i
  <2>3. /\ node'[name[t][It]].type = node[name[t][It]].type
        /\ node'[name[t][It]].data = node[name[t][It]].data
    BY <2>1, <2>2 DEF Ages
  <2> QED
    BY <1>1, <1>3, <2>1, <2>3 DEF StillShown, Present, At
<1> QED
  BY <1>2, <1>3

(* What a call may count on while nobody else acts in its course: the      *)
(* names it is still to take away or replace are those shown, and a merged *)
(* file is there before the rejected one goes.                             *)
Trusted ==
  pc \in Acting /\ call.since = edits =>
    /\ pc # "dress" \/ call.op = "keep" => StillShown("staged")
    /\ pc \in {"rename", "publish"} \/ call.op = "keep" => StillShown("installed")
    /\ pc = "retire" /\ call.op = "install_merged" => At("installed", It).data = copy

LEMMA TrustedBegins ==
  ASSUME Base, Witnessed, Begins
  PROVE  Trusted'
<1>1. UNCHANGED <<name, node, todo, Current, It>> /\ todo # <<>>
  BY BeginFacts DEF Current, It
<1>2. ASSUME NEW t \in Tree
      PROVE  StillShown(t)
  <2>1. Genuine(Current, t, node)
    BY <1>1, InHand DEF Witnessed
  <2> QED
    BY <2>1, BeginHolds DEF Genuine, StillShown, Present, At
<1>3. \A t \in Tree : StillShown(t)'
  BY <1>1, <1>2 DEF StillShown, Present, At
<1>4. ~(pc' = "retire" /\ call'.op = "install_merged")
  BY DEF Begins, Starts
<1> QED
  BY <1>3, <1>4 DEF Trusted, Tree

LEMMA TrustedActs ==
  ASSUME Base, Trusted, Performs, pc' \in Acting
  PROVE  Trusted'
<1>1. Acts /\ pc \in Acting
  BY Performing DEF Acts
<1>2. /\ FsOK /\ FsOK' /\ Ages /\ It \in Path /\ <<call.op, pc>> \in Stages
      /\ UNCHANGED <<todo, call, copy, edits>>
  BY <1>1, ActFacts, UnderWay DEF Acting
<1> SUFFICES ASSUME call.since = edits
             PROVE  Trusted'
  BY <1>2 DEF Trusted
<1>3. /\ pc # "dress" \/ call.op = "keep" => StillShown("staged")
      /\ pc \in {"rename", "publish"} \/ call.op = "keep" => StillShown("installed")
  BY <1>1 DEF Trusted
<1>4. \A t \in Tree : name'[t][It] = name[t][It] /\ StillShown(t) => StillShown(t)'
  BY <1>2, StillShownStays
<1>5. UNCHANGED It /\ "staged" \in Tree /\ "installed" \in Tree
  BY <1>2 DEF It, Current, Tree
<1>6. CASE Dressed
  <2>1. call.op = "keep" /\ pc' = "retire" /\ name' = name
    BY <1>1, <1>6 DEF Dressed, Goes, Returns, Advance, Acting
  <2> QED
    BY <1>2, <1>3, <1>4, <1>5, <2>1 DEF Trusted
<1>7. CASE Retired \/ Moved
  BY <1>7 DEF Retired, Moved, Returns, Advance, Acting
<1>8. CASE Renamed
  <2>1. pc' = "dress" /\ call.op = "install"
    BY <1>2, <1>8 DEF Renamed, Goes, Stages, Starts
  <2> QED
    BY <1>2, <2>1 DEF Trusted
<1>9. CASE Published
  <2>1. /\ pc = "publish" /\ pc' = "retire" /\ call.op = "install_merged"
        /\ name'["staged"] = name["staged"] /\ node'[name'["installed"][It]].data = copy
    BY <1>2, <1>9 DEF Published, Goes, Stages, Starts
  <2> QED
    BY <1>2, <1>3, <1>4, <1>5, <2>1 DEF Trusted, At
<1>10. CASE Made
  <2>1. /\ pc = "move" /\ pc' = "move" /\ name'["staged"] = name["staged"]
        /\ call.op = "move"
    BY <1>2, <1>10 DEF Made, Goes, Stages, Starts
  <2> QED
    BY <1>2, <1>3, <1>4, <1>5, <2>1 DEF Trusted
<1> QED
  BY <1>6, <1>7, <1>8, <1>9, <1>10 DEF Performs

LEMMA TrustedStep ==
  ASSUME Base, Witnessed, Trusted, [Next]_vars
  PROVE  Trusted'
<1> SUFFICES ASSUME pc' \in Acting
             PROVE  Trusted'
  BY DEF Trusted
<1>1. CASE UNCHANGED vars
  BY <1>1, SameFacts DEF Trusted, StillShown, Current, It, Present, At
<1>2. CASE pc \in Acting /\ Intrudes
  <2>1. call.since <= edits /\ call.since \in Nat
    BY <1>2, UnderWay
  <2>2. call' = call /\ edits \in Nat /\ edits' = edits + 1
    BY <1>2, IntrudeFacts
  <2>3. call'.since # edits'
    BY <2>1, <2>2
  <2> QED
    BY <2>3 DEF Trusted
<1> QED
  BY <1>1, <1>2, ComesToAct, TrustedBegins, TrustedActs

(* Between its validation and its end a call finds what was shown at the   *)
(* names it still needs, unless others act in its course.                  *)
(* (validate_current, and the steps after it)                              *)
THEOREM CallsAreTrusted == Spec => []Trusted
<1>1. Init => Trusted
  BY DEF Init, Trusted, Acting
<1>2. Base /\ Witnessed /\ Trusted /\ [Next]_vars => Trusted'
  BY TrustedStep
<1> QED
  BY <1>1, <1>2, Grounded, Remembered, PTL DEF Spec

LEMMA ShownStep ==
  ASSUME Base, Trusted, [Next]_vars, edits' = edits, pc \in Acting, call.since = edits,
         NEW t \in Tree
  PROVE  name'[t][It] = name[t][It] \/ StillShown(t)
<1>1. /\ FsOK /\ It \in Path /\ <<call.op, pc>> \in Stages /\ Subjects
      /\ Current \in View /\ Snapshot(Current)
  BY UnderWay
<1>2. CASE Fail \/ UNCHANGED vars \/ Intrudes
  BY <1>2, FailFacts, SameFacts, IntrudeFacts
<1>3. /\ pc # "dress" => StillShown("staged")
      /\ pc \in {"rename", "publish"} => StillShown("installed")
  BY DEF Trusted
<1>4. CASE Dressed
  BY <1>4 DEF Dressed
<1>5. CASE Retired
  BY <1>3, <1>5 DEF Retired, Tree
<1>6. CASE Renamed
  BY <1>3, <1>6 DEF Renamed, Tree
<1>7. CASE Published
  BY <1>3, <1>7 DEF Published, Tree
<1>8. CASE Made \/ Moved
  <2>1. /\ pc = "move" /\ StillShown("staged")
        /\ \E q \in Path :
             /\ ~Present("installed", q)
             /\ \A r \in Path : r # q => name'["installed"][r] = name["installed"][r]
    BY <1>3, <1>8 DEF Made, Moved, Makes
  <2>2. Current.was["installed"] = NoNode
    BY <1>1, <2>1, RelicIsMissing DEF Stages, Starts, Subjects
  <2>3. name'["installed"][It] # name["installed"][It] => ~Present("installed", It)
    BY <1>1, <2>1
  <2> QED
    BY <2>1, <2>2, <2>3 DEF StillShown, Tree
<1> QED
  BY <1>2, <1>4, <1>5, <1>6, <1>7, <1>8, WhileActing DEF Performs

(* The names a call takes away or replaces refer to what the administrator *)
(* was shown, however long the dialogue took and whatever other processes  *)
(* did before the call validated its candidate, unless one acts in the     *)
(* course of the call itself.  (validate_current)                          *)
THEOREM OnlyTheShown == Spec => OnlyShownIsActedOn
<1> DEFINE A == edits' = edits /\ pc \in Acting /\ call.since = edits =>
                  \A t \in Tree : name'[t][It] = name[t][It] \/ StillShown(t)
<1>1. Base /\ Trusted /\ [Next]_vars => [A]_vars
  BY ShownStep
<1>2. Spec => [][A]_vars
  BY <1>1, Grounded, CallsAreTrusted, PTL DEF Spec
<1> QED
  BY <1>2 DEF OnlyShownIsActedOn

------------------------------------------------------------------------------
(* The sweep.                                                              *)

(* What is still to be swept: deepest first, and a directory unless        *)
(* something took its place.                                               *)
Cleaning ==
  /\ \A k, l \in DOMAIN sweep : k < l => Cardinality(Above[sweep[k]]) >= Cardinality(Above[sweep[l]])
  /\ \A k \in DOMAIN sweep : Present("staged", sweep[k]) =>
       IsDirectory("staged", sweep[k]) \/ sweep[k] \in arrived

LEMMA CleaningStep ==
  ASSUME Base, Cleaning, [Next]_vars
  PROVE  Cleaning'
<1>1. FsOK /\ FsOK' /\ sweep \in Seq(Path)
  BY BaseStep DEF Base, Types
<1>2. CASE sweep' = <<>>
  BY <1>2 DEF Cleaning
<1>3. CASE pc # "sweep" /\ UNCHANGED sweep
  BY <1>2, <1>3 DEF Base, Flow
<1>4. CASE Finish /\ pc' = "sweep" /\ sweep' = StagedDirectories
  <2>1. UNCHANGED <<name, node>>
    BY <1>4, FinishFacts
  <2> QED
    BY <1>4, <2>1, DirectoriesSorted DEF Cleaning, IsDirectory, At, Present
<1>5. CASE Sweep
  <2>a. ASSUME NEW p \in Path, Present("staged", p) => IsDirectory("staged", p) \/ p \in arrived
        PROVE  name'["staged"][p] # NoIno => node'[name'["staged"][p]].type = "directory" \/ p \in arrived'
    <3>1. name'["staged"][p] \in {NoIno, name["staged"][p]} /\ Ages /\ arrived' = arrived
      BY <1>5, SweepFacts
    <3>2. Present("staged", p)' => IsDirectory("staged", p)' \/ p \in arrived'
      BY <1>1, <2>a, <3>1, StaysDirectory DEF Tree, Present
    <3> QED
      BY <3>2 DEF Present, IsDirectory, At
  <2>1. \A k \in DOMAIN sweep' : name'["staged"][sweep'[k]] # NoIno =>
          node'[name'["staged"][sweep'[k]]].type = "directory" \/ sweep'[k] \in arrived'
    <3> TAKE k \in DOMAIN sweep'
    <3>1. k + 1 \in DOMAIN sweep /\ sweep'[k] = sweep[k + 1] /\ sweep[k + 1] \in Path
      BY <1>1, <1>5, SweepFacts
    <3>2. Present("staged", sweep[k + 1]) => IsDirectory("staged", sweep[k + 1]) \/ sweep[k + 1] \in arrived
      BY <3>1 DEF Cleaning
    <3> QED
      BY <2>a, <3>1, <3>2
  <2>2. \A k, l \in DOMAIN sweep' : k < l =>
          Cardinality(Above[sweep'[k]]) >= Cardinality(Above[sweep'[l]])
    <3> SUFFICES ASSUME NEW k \in DOMAIN sweep', NEW l \in DOMAIN sweep', k < l
                 PROVE  Cardinality(Above[sweep'[k]]) >= Cardinality(Above[sweep'[l]])
      OBVIOUS
    <3>1. /\ k \in Nat /\ l \in Nat /\ k + 1 \in DOMAIN sweep /\ l + 1 \in DOMAIN sweep
          /\ sweep'[k] = sweep[k + 1] /\ sweep'[l] = sweep[l + 1]
      BY <1>5, SweepFacts
    <3>2. k + 1 < l + 1
      BY <3>1
    <3> QED
      BY <3>1, <3>2 DEF Cleaning
  <2>3. pc' = "sweep"
    BY <1>5, SweepFacts
  <2> QED
    BY <2>1, <2>2, <2>3 DEF Cleaning, Present, IsDirectory, At
<1>6. CASE Intrudes
  <2>1. /\ UNCHANGED <<pc, sweep>> /\ Ages
        /\ arrived \subseteq arrived'
        /\ \A p \in Path : name'["staged"][p] = name["staged"][p] \/ p \in arrived'
    BY <1>6, IntrudeFacts
  <2>2. ASSUME NEW p \in Path, Present("staged", p) => IsDirectory("staged", p) \/ p \in arrived
        PROVE  Present("staged", p)' => IsDirectory("staged", p)' \/ p \in arrived'
    BY <1>1, <2>1, <2>2, StaysDirectory DEF Tree
  <2>3. \A k \in DOMAIN sweep : sweep[k] \in Path
    BY <1>1
  <2>4. \A k \in DOMAIN sweep : Present("staged", sweep[k]) =>
          IsDirectory("staged", sweep[k]) \/ sweep[k] \in arrived
    BY DEF Cleaning
  <2>5. \A k \in DOMAIN sweep : \E p \in Path : p = sweep[k]
          /\ (name'["staged"][p] # NoIno => node'[name'["staged"][p]].type = "directory" \/ p \in arrived')
    BY <2>2, <2>3, <2>4 DEF Present, IsDirectory, At
  <2> QED
    BY <2>1, <2>5 DEF Cleaning, Present, IsDirectory, At
<1>7. CASE UNCHANGED vars
  BY <1>7, SameFacts DEF Cleaning, Present, IsDirectory, At
<1>8. CASE Asks \/ Skip \/ Begins \/ Performs \/ (ShowDryRun /\ pc' # "failed")
  <2>1. pc \in Busy \cup {"next"} /\ UNCHANGED sweep
    BY <1>8, AskFacts, SkipFacts, ShowFacts, BeginFacts, ActFacts, Performing
  <2> QED
    BY <1>3, <2>1 DEF Busy, Asking, Menu, Acting
<1>9. CASE Fail \/ Swept \/ (Scan /\ pc' # "failed")
  BY <1>2, <1>3, <1>9, FailFacts, SweptFacts, ScanFacts
<1>10. CASE Finish
  BY <1>3, <1>4, <1>10, FinishFacts
<1> QED
  BY <1>5, <1>6, <1>7, <1>8, <1>9, <1>10, Steps

(* The sweep goes upwards, and meets a file only where one took the place  *)
(* of a directory.  (cleanup_empty_directories)                            *)
THEOREM SweepsUpwards == Spec => []Cleaning
<1>1. Init => Cleaning
  BY DEF Init, Cleaning
<1>2. Base /\ Cleaning /\ [Next]_vars => Cleaning'
  BY CleaningStep
<1> QED
  BY <1>1, <1>2, Grounded, PTL DEF Spec

------------------------------------------------------------------------------
(* Nothing is lost.                                                        *)

(* What a step that ends an object means for the name it had.              *)
Accounted(i) ==
  \/ /\ pc \in {"rename", "publish"} /\ i = name["installed"][It]
     /\ name'["installed"][It] # NoIno
     /\ node'[name'["installed"][It]].data =
          IF pc = "publish" THEN copy ELSE At("staged", It).data
  \/ /\ pc = "retire" /\ i = name["staged"][It]
     /\ call.op \in {"keep", "install_merged"} /\ call.since = edits =>
          /\ Present("installed", It)
          /\ Current.cd.equal => At("installed", It).data = node[i].data
          /\ call.op = "install_merged" => At("installed", It).data = copy
  \/ pc = "sweep" /\ \E p \in arrived : name["staged"][p] = i

(* The automatic keep gives up a file whose contents the installed one has.*)
LEMMA KeepsContents ==
  ASSUME Base, StillShown("staged"), StillShown("installed"), pc \in Acting,
         Current.cd.equal, Present("staged", It), ~IsDirectory("staged", It)
  PROVE  Present("installed", It) /\ At("installed", It).data = At("staged", It).data
<1>1. Current \in View /\ Snapshot(Current) /\ "installed" \in Tree /\ "staged" \in Tree
  BY UnderWay DEF Tree
<1>2. Current.cd["installed"] = Current.cd.installed /\ Current.cd["staged"] = Current.cd.staged
  BY <1>1, Views
<1>3. Current.was["staged"] # NoNode /\ Current.was["staged"].type # "directory"
  BY <1>1 DEF Snapshot, StillShown, IsDirectory
<1>4. Current.cd.staged.type # "directory"
  BY <1>1, <1>2, <1>3 DEF Snapshot
<1>5. /\ Current.was["installed"] # NoNode /\ Current.cd.installed.type = "regular"
      /\ Current.was["installed"].data = Current.was["staged"].data
  BY <1>1, <1>4 DEF Snapshot
<1>6. Current.was["installed"].type = "regular"
  BY <1>1, <1>2, <1>5 DEF Snapshot
<1> QED
  BY <1>3, <1>5, <1>6 DEF StillShown

LEMMA NothingLostStep ==
  ASSUME Base, Held, Trusted, Cleaning, [Next]_vars, edits' = edits,
         NEW i \in Ino, node[i] # NoNode, node[i].type # "directory", node'[i] = NoNode
  PROVE  Accounted(i)
<1>1. FsOK /\ FsOK' /\ Tree = {"installed", "staged"}
  BY BaseStep DEF Base, Types, Tree
<1>2. PICK t \in Tree, p \in Path : name[t][p] = i
  BY <1>1 DEF FsOK
<1>3. name'[t][p] # i /\ \A u \in Tree, q \in Path : name'[u][q] # i
  BY <1>1 DEF FsOK
<1>4. Present(t, p) /\ ~IsDirectory(t, p)
  BY <1>2, InoAssumption DEF Present, IsDirectory, At
<1>5. name' # name /\ ~UNCHANGED <<name, node>>
  BY <1>2, <1>3
<1>6. ~Intrudes
  BY IntrudeFacts
<1>7. ASSUME Performs
      PROVE  /\ pc \in Acting /\ It \in Path /\ Ages
             /\ t = "staged" => p = It /\ name'["staged"][It] = NoIno
             /\ <<call.op, pc>> \in Stages /\ Subjects
             /\ ~Relic(Current.cd) => Present("installed", It)
  <2>1. Acts /\ pc \in Acting /\ Works(It)
    BY <1>7, Performing DEF Acts
  <2>2. t = "staged" => p = It /\ name'["staged"][It] = NoIno
    BY <1>2, <1>3, <2>1 DEF Works
  <2> QED
    BY <2>1, <2>2, UnderWay DEF Held, Works
<1>8. CASE Dressed
  BY <1>5, <1>8 DEF Dressed
<1>9. CASE Retired
  <2>1. Performs /\ pc = "retire" /\ name'["installed"] = name["installed"]
    BY <1>9 DEF Retired, Performs
  <2>2. t = "staged" /\ p = It /\ i = name["staged"][It]
    BY <1>1, <1>2, <1>3, <1>7, <2>1
  <2>3. ASSUME call.op \in {"keep", "install_merged"}, call.since = edits
        PROVE  /\ Present("installed", It)
               /\ Current.cd.equal => At("installed", It).data = node[i].data
               /\ call.op = "install_merged" => At("installed", It).data = copy
    <3>1. Present("installed", It)
      BY <1>7, <2>1, <2>3 DEF Subjects
    <3>2. CASE call.op = "keep"
      <4>1. StillShown("staged") /\ StillShown("installed") /\ pc \in Acting
        BY <1>7, <2>1, <2>3, <3>2 DEF Trusted
      <4>2. Current.cd.equal => At("installed", It).data = At("staged", It).data
        BY <1>4, <2>2, <4>1, KeepsContents
      <4> QED
        BY <2>2, <3>1, <3>2, <4>2 DEF At
    <3>3. CASE call.op = "install_merged"
      <4>1. ~Current.cd.equal /\ At("installed", It).data = copy
        BY <1>7, <2>1, <2>3, <3>3 DEF Trusted, Subjects
      <4> QED
        BY <3>1, <4>1
    <3> QED
      BY <2>3, <3>2, <3>3
  <2> QED
    BY <2>1, <2>2, <2>3 DEF Accounted
<1>10. CASE Renamed
  <2>1. /\ Performs /\ pc = "rename" /\ name["staged"][It] # NoIno
        /\ name'["installed"][It] = name["staged"][It]
        /\ \A q \in Path : q # It => name'["installed"][q] = name["installed"][q]
    BY <1>10 DEF Renamed, Performs
  <2>2. t = "installed" /\ p = It /\ i = name["installed"][It]
    BY <1>1, <1>2, <1>3, <1>7, <2>1
  <2>3. PICK s \in Ino : s = name["staged"][It] /\ node'[s] # NoNode /\ node[s] # NoNode
    BY <1>1, <1>7, <2>1 DEF FsOK
  <2>4. node'[s].data = node[s].data
    BY <1>7, <2>1, <2>3 DEF Ages
  <2> QED
    BY <2>1, <2>2, <2>3, <2>4 DEF Accounted, At
<1>11. CASE Published
  <2>1. /\ Performs /\ pc = "publish" /\ name'["staged"] = name["staged"]
        /\ \A q \in Path : q # It => name'["installed"][q] = name["installed"][q]
        /\ node'[name'["installed"][It]].data = copy /\ name'["installed"][It] # NoIno
    BY <1>1, <1>11, FreeMeansFree DEF Published, Performs
  <2>2. p = It /\ t = "installed" /\ i = name["installed"][It]
    BY <1>1, <1>2, <1>3, <1>7, <2>1
  <2> QED
    BY <2>1, <2>2 DEF Accounted
<1>12. CASE Made \/ Moved
  <2>1. /\ Performs
        /\ \E q \in Path :
             /\ ~Present("installed", q)
             /\ \A r \in Path : r # q => name'["installed"][r] = name["installed"][r]
        /\ name'["staged"] = name["staged"]
           \/ \E q \in Path : name'["installed"][q] = name["staged"][It]
    BY <1>12 DEF Made, Moved, Makes, Performs
  <2>2. t = "staged"
    BY <1>1, <1>2, <1>3, <1>4, <2>1
  <2>3. p = It /\ name'["staged"] # name["staged"]
    BY <1>2, <1>3, <1>7, <2>1, <2>2
  <2> QED
    BY <1>1, <1>2, <1>3, <2>1, <2>2, <2>3
<1>13. CASE Sweep
  <2>1. t = "staged" /\ p = Head(sweep) /\ Head(sweep) = sweep[1] /\ 1 \in DOMAIN sweep /\ pc = "sweep"
    BY <1>1, <1>2, <1>3, <1>13, SweepFacts
  <2>2. p \in arrived
    BY <1>4, <2>1 DEF Cleaning
  <2> QED
    BY <1>2, <2>1, <2>2 DEF Accounted
<1> QED
  BY <1>5, <1>6, <1>8, <1>9, <1>10, <1>11, <1>12, <1>13, FailFacts, ScanFacts, AskFacts, BeginFacts,
     ShowFacts, SkipFacts, FinishFacts, SweptFacts, SameFacts, Steps DEF Performs

(* What the program takes the last name of is a file of the current        *)
(* candidate: the installed one when the rejected or the merged file takes *)
(* its place, the rejected one when the administrator chose to give it up; *)
(* and unless others acted since the call validated its candidate, what it *)
(* is given up for is there by then.  The one exception is a file that     *)
(* took the place of a directory before the sweep reached it.              *)
(* (run_terminal, keep, install, install_merged, move_noreplace, cleanup)  *)
THEOREM NothingIsLost == Spec => NothingLost
<1> DEFINE A == \A i \in Ino :
                  edits' = edits /\ node[i] # NoNode /\ node[i].type # "directory" /\ node'[i] = NoNode
                    => Accounted(i)
<1>1. Base /\ Held /\ Trusted /\ Cleaning /\ [Next]_vars => [A]_vars
  BY NothingLostStep
<1>2. Spec => [][A]_vars
  BY <1>1, Grounded, CallsAreHeld, CallsAreTrusted, SweepsUpwards, PTL DEF Spec
<1> QED
  BY <1>2 DEF NothingLost, Accounted

------------------------------------------------------------------------------
(* Skipped files.                                                          *)

(* The staged name of a candidate that is not a directory stays until a    *)
(* call is under way for it or others put a file there, and for ever if it *)
(* is skipped.                                                             *)
Stands(v, names, nd, others) ==
  v.cd.staged.type # "directory" /\ v.path \notin others =>
    /\ names["staged"][v.path] = v.cd.staged.inode
    /\ nd[v.cd.staged.inode].type # "directory"

Standing ==
  /\ \A k \in DOMAIN todo : (k = 1 => pc \notin Acting) => Stands(todo[k], name, node, arrived)
  /\ \A v \in skipped : Stands(v, name, node, arrived)
  /\ \A k \in DOMAIN todo : \A v \in skipped : v.path # todo[k].path
  /\ \A k \in DOMAIN sweep : \A v \in skipped :
       v.cd.staged.type # "directory" /\ v.path \notin arrived => sweep[k] # v.path
  /\ pc = "scan" => skipped = {}

LEMMA StagedInode ==
  ASSUME NEW v \in View, Snapshot(v)
  PROVE  v.path \in Path /\ v.cd.staged.inode \in Ino /\ v.cd.staged.inode # NoIno
BY Views, InoAssumption DEF Snapshot, Tree

LEMMA StandsStays ==
  ASSUME FsOK, FsOK', Ages, arrived \subseteq arrived', NEW v \in View, Snapshot(v),
         Stands(v, name, node, arrived),
         v.cd.staged.type # "directory" /\ v.path \notin arrived' =>
           name'["staged"][v.path] = name["staged"][v.path]
  PROVE  Stands(v, name', node', arrived')
<1> SUFFICES ASSUME v.cd.staged.type # "directory", v.path \notin arrived'
             PROVE  /\ name'["staged"][v.path] = v.cd.staged.inode
                    /\ node'[v.cd.staged.inode].type # "directory"
  BY DEF Stands
<1> DEFINE i == v.cd.staged.inode
<1>1. i \in Ino /\ name["staged"][v.path] = i /\ node[i].type # "directory" /\ v.path \in Path
  BY StagedInode DEF Stands
<1>2. node[i] # NoNode /\ node'[i] # NoNode
  BY <1>1 DEF FsOK, Tree
<1> QED
  BY <1>1, <1>2 DEF Ages

LEMMA StandingStep ==
  ASSUME Base, Standing, [Next]_vars
  PROVE  Standing'
<1>1. /\ FsOK /\ FsOK' /\ sweep \in Seq(Path) /\ skipped \subseteq View
      /\ \A k \in DOMAIN todo : todo[k] \in View /\ Snapshot(todo[k]) /\ todo[k].path \in Path
      /\ \A k \in DOMAIN todo : (k = 1 => pc \notin Acting) => Stands(todo[k], name, node, arrived)
      /\ \A v \in skipped : v \in View /\ v.path \in Path /\ Snapshot(v) /\ Stands(v, name, node, arrived)
  BY BaseStep, Views DEF Base, Types, Scene, Standing
<1>2. CASE Fail
  BY <1>2, FailFacts DEF Standing
<1>3. CASE Asks \/ Begins \/ Swept \/ UNCHANGED vars
  <2>1. UNCHANGED <<name, node, todo, sweep, skipped, arrived>>
    BY <1>3, AskFacts, BeginFacts, SweptFacts, SameFacts
  <2>2. (pc' = "scan" => pc = "scan") /\ (pc \in Acting => pc' \in Acting)
    BY <1>3, AskFacts, BeginFacts, SweptFacts, SameFacts DEF Asking, Menu, Acting
  <2> QED
    BY <2>1, <2>2 DEF Standing
<1>4. CASE Scan /\ pc' # "failed"
  <2>1. /\ FsOK /\ Shared /\ pc = "scan" /\ pc' = "next"
        /\ UNCHANGED <<name, sweep, skipped>>
    BY <1>4, ScanFacts
  <2>2. skipped' = {}
    BY <2>1 DEF Standing
  <2>3. /\ \A k \in DOMAIN todo' : /\ todo'[k] = Scanned(todo'[k].path) /\ todo'[k].path \in Path
                                   /\ Present("staged", todo'[k].path)
        /\ \A i \in Ino : node[i] # NoNode => node'[i].type = node[i].type
    BY <1>4, <2>1, Scans
  <2>4. ASSUME NEW p \in Path, Present("staged", p)
        PROVE  Stands(Scanned(p), name', node', arrived')
    <3> DEFINE s == [Sees("staged", p) EXCEPT !.ctime = 0]
    <3>1. Scanned(p).path = p /\ Scanned(p).cd.staged = s
      BY <2>1, ScannedFields
    <3>2. /\ s.inode = name["staged"][p] /\ s.inode \in Ino /\ At("staged", p) # NoNode
          /\ s.type = At("staged", p).type
      BY <2>1, <2>4, SeenFingerprint DEF Tree
    <3> HIDE DEF s
    <3> QED
      BY <2>1, <2>3, <3>1, <3>2 DEF Stands, At
  <2>5. \A k \in DOMAIN todo' : Stands(todo'[k], name', node', arrived')
    BY <2>3, <2>4
  <2> QED
    BY <2>1, <2>2, <2>5 DEF Standing
<1>5. ASSUME todo # <<>>, Advance, Ages, sweep' = <<>>, arrived' = arrived,
             \A q \in Path : q # It => name'["staged"][q] = name["staged"][q],
             \/ skipped' = skipped
             \/ skipped' = skipped \cup {Current} /\ UNCHANGED name /\ pc \notin Acting
      PROVE  Standing'
  <2>1. /\ pc' = "next" /\ DOMAIN todo' = 1 .. Len(todo') /\ Len(todo') \in Nat
        /\ \A k \in DOMAIN todo' : k + 1 \in DOMAIN todo /\ todo'[k] = todo[k + 1]
    BY <1>5, Advances
  <2>2. Current \in View /\ Current = todo[1] /\ 1 \in DOMAIN todo /\ It = Current.path
    BY <1>5, InHand
  <2>3. \A k \in DOMAIN todo' : k + 1 # 1 /\ todo'[k].path # It
    <3> TAKE k \in DOMAIN todo'
    <3>1. k + 1 # 1 /\ k + 1 \in DOMAIN todo /\ todo'[k] = todo[k + 1]
      BY <2>1
    <3> QED
      BY <2>2, <3>1 DEF Base, Scene
  <2>4. \A k \in DOMAIN todo' : Stands(todo'[k], name', node', arrived')
    <3> TAKE k \in DOMAIN todo'
    <3>1. /\ todo'[k] = todo[k + 1] /\ todo[k + 1] \in View /\ Snapshot(todo[k + 1])
          /\ Stands(todo[k + 1], name, node, arrived) /\ todo[k + 1].path # It
          /\ todo[k + 1].path \in Path
      BY <1>1, <2>1, <2>3
    <3>2. Stands(todo[k + 1], name', node', arrived')
      BY <1>1, <1>5, <3>1, StandsStays
    <3> QED
      BY <3>1, <3>2
  <2>5. \A v \in skipped : v.path # It
    BY <2>2 DEF Standing
  <2>6. \A v \in skipped : Stands(v, name', node', arrived')
    BY <1>1, <1>5, <2>5, StandsStays
  <2>7. UNCHANGED name /\ pc \notin Acting => Stands(Current, name', node', arrived')
    BY <1>1, <1>5, <2>2, StandsStays
  <2>8. \A k \in DOMAIN todo' : \A v \in skipped' : v.path # todo'[k].path
    <3> TAKE k \in DOMAIN todo'
    <3>1. k + 1 \in DOMAIN todo /\ todo'[k] = todo[k + 1]
      BY <2>1
    <3>2. \A v \in skipped : v.path # todo'[k].path
      BY <3>1 DEF Standing
    <3> QED
      BY <1>5, <2>2, <2>3, <3>2
  <2> QED
    BY <1>5, <2>1, <2>4, <2>6, <2>7, <2>8 DEF Standing
<1>6. CASE Skip \/ (ShowDryRun /\ pc' # "failed")
  <2>1. /\ todo # <<>> /\ Advance /\ UNCHANGED <<name, node, sweep, arrived>> /\ pc # "sweep"
        /\ skipped' \in {skipped, skipped \cup {Current}} /\ pc \notin Acting
    BY <1>6, SkipFacts, ShowFacts DEF Busy, Asking, Menu, Acting
  <2>2. Ages /\ sweep' = <<>>
    BY <2>1, AgesSame DEF Base, Flow
  <2> QED
    BY <1>5, <2>1, <2>2
<1>7. CASE Performs
  <2>1. /\ Works(It) /\ Ages /\ todo # <<>> /\ pc # "sweep" /\ UNCHANGED <<sweep, skipped, arrived>>
        /\ \/ pc' \in Acting /\ todo' = todo
           \/ Advance
    BY <1>7, Performing, ActFacts
  <2>2. sweep' = <<>>
    BY <2>1 DEF Base, Flow
  <2>3. \A q \in Path : q # It => name'["staged"][q] = name["staged"][q]
    BY <2>1 DEF Works
  <2>4. CASE Advance
    BY <1>5, <2>1, <2>2, <2>3, <2>4
  <2>5. CASE pc' \in Acting /\ todo' = todo
    <3>1. Current = todo[1] /\ 1 \in DOMAIN todo /\ It = Current.path
      BY <2>1, InHand
    <3>2. \A k \in DOMAIN todo : k # 1 => todo[k].path # It
      BY <3>1 DEF Base, Scene
    <3>3. \A k \in DOMAIN todo : k # 1 => Stands(todo[k], name', node', arrived')
      BY <1>1, <2>1, <2>3, <3>2, StandsStays
    <3>4. \A v \in skipped : v.path # It
      BY <3>1 DEF Standing
    <3>5. \A v \in skipped : Stands(v, name', node', arrived')
      BY <1>1, <2>1, <2>3, <3>4, StandsStays
    <3>6. pc' # "scan"
      BY <2>5 DEF Acting
    <3> QED
      BY <2>1, <2>2, <2>5, <3>3, <3>5, <3>6 DEF Standing
  <2> QED
    BY <2>1, <2>4, <2>5
<1>8. CASE Finish
  <2>1. /\ pc = "next" /\ pc' \in {"done", "sweep"} /\ UNCHANGED <<name, node, todo, skipped, arrived>>
        /\ sweep' = <<>> \/ sweep' = StagedDirectories
    BY <1>8, FinishFacts DEF Base, Flow
  <2>2. ASSUME NEW v \in skipped, v.cd.staged.type # "directory", v.path \notin arrived
        PROVE  ~IsDirectory("staged", v.path)
    BY <2>2 DEF Standing, Stands, IsDirectory, At
  <2>3. \A k \in DOMAIN sweep' : \A v \in skipped :
          v.cd.staged.type # "directory" /\ v.path \notin arrived => sweep'[k] # v.path
    BY <2>1, <2>2, DirectoriesSorted
  <2>4. pc \notin Acting /\ pc' # "scan"
    BY <2>1 DEF Acting
  <2> QED
    BY <2>1, <2>3, <2>4 DEF Standing
<1>9. CASE Sweep
  <2>1. /\ pc = "sweep" /\ pc' = pc /\ UNCHANGED <<todo, skipped, arrived>> /\ Ages /\ todo = <<>>
        /\ Head(sweep) = sweep[1] /\ 1 \in DOMAIN sweep
        /\ \A q \in Path : q # Head(sweep) => name'["staged"][q] = name["staged"][q]
        /\ \A k \in DOMAIN sweep' : k + 1 \in DOMAIN sweep /\ sweep'[k] = sweep[k + 1]
    BY <1>9, SweepFacts
  <2>2. \A v \in skipped : Stands(v, name', node', arrived')
    <3> TAKE v \in skipped
    <3>1. v.cd.staged.type # "directory" /\ v.path \notin arrived => v.path # Head(sweep)
      BY <2>1 DEF Standing
    <3> QED
      BY <1>1, <2>1, <3>1, StandsStays
  <2> QED
    BY <2>1, <2>2 DEF Standing
<1>10. CASE Intrudes
  <2>1. UNCHANGED <<pc, todo, sweep, skipped>> /\ Ages /\ arrived \subseteq arrived'
    BY <1>10, IntrudeFacts
  <2>2. \A q \in Path : q \notin arrived' => name'["staged"][q] = name["staged"][q]
    BY <1>10, IntrudeFacts
  <2>3. \A k \in DOMAIN todo : (k = 1 => pc \notin Acting) => Stands(todo[k], name', node', arrived')
    BY <1>1, <2>1, <2>2, StandsStays
  <2>4. \A v \in skipped : Stands(v, name', node', arrived')
    BY <1>1, <2>1, <2>2, StandsStays
  <2> QED
    BY <2>1, <2>3, <2>4 DEF Standing
<1> QED
  BY <1>2, <1>3, <1>4, <1>6, <1>7, <1>8, <1>9, <1>10, Steps

(* A skipped candidate that is not a directory is left where it is, by the *)
(* rest of the session and its cleanup, and other processes only put       *)
(* another file in its place.  (rejmerge.8: skip)                          *)
THEOREM SkippedFilesAreLeft == Spec => []SkippedFilesStay
<1>1. Init => Standing
  BY DEF Init, Standing
<1>2. Base /\ Standing /\ [Next]_vars => Standing'
  BY StandingStep
<1>3. Standing => SkippedFilesStay
  BY DEF Standing, SkippedFilesStay, Stands
<1> QED
  BY <1>1, <1>2, <1>3, Grounded, PTL DEF Spec

------------------------------------------------------------------------------
(* The other candidates of a scan.                                         *)

(* Undisturbed, a candidate whose objects nothing shares is as it was.     *)
Untouched(v, names, nd) ==
  \A t \in Tree :
    LET i == v.cd[t].inode
    IN /\ names[t][v.path] = i
       /\ \A u \in Tree, q \in Path : names[u][q] = i => u = t /\ q = v.path
       /\ nd[i].type = v.cd[t].type /\ nd[i].mode = v.cd[t].mode /\ nd[i].owner = v.cd[t].owner
       /\ v.cd[t].type # "directory" => nd[i].ctime = 0

Undisturbed ==
  edits = 0 => \A k \in DOMAIN todo :
    todo[k].alone /\ ~Relic(todo[k].cd) /\ (k = 1 => pc \notin Acting) =>
      Untouched(todo[k], name, node)

LEMMA BothThere ==
  ASSUME NEW v \in View, Snapshot(v), ~Relic(v.cd), NEW t \in Tree
  PROVE  /\ v.path \in Path /\ v.was[t] # NoNode /\ v.cd[t].exists /\ v.cd[t].ctime = 0
         /\ v.cd[t].inode \in Ino /\ v.cd[t].inode # NoIno
<1>1. v.was["installed"] # NoNode
  BY RelicIsMissing
<1>2. v.was["staged"] # NoNode /\ v.path \in Path
  BY Views DEF Snapshot
<1>3. v.was[t] # NoNode
  BY <1>1, <1>2 DEF Tree
<1> QED
  BY <1>2, <1>3, InoAssumption DEF Snapshot

(* What a call gives a name to: new objects, and the staged one.           *)
LEMMA NewNames ==
  ASSUME Base, Performs
  PROVE  /\ \A t \in Tree, q \in Path :
              name'[t][q] \in {name[t][q], NoIno, name["staged"][It]} \cup Unused
         /\ \A t \in Tree, q \in Path : q # It /\ Present(t, q) => name'[t][q] = name[t][q]
<1>1. /\ Works(It) /\ Tree = {"installed", "staged"}
      /\ \A q \in Path : q # It => name'["staged"][q] = name["staged"][q]
      /\ name'["staged"][It] \in {NoIno, name["staged"][It]}
  BY Performing, ActFacts DEF Works, Tree
<1>2. CASE Dressed \/ Retired
  <2>1. name'["installed"] = name["installed"]
    BY <1>2 DEF Dressed, Retired
  <2> QED
    BY <1>1, <2>1
<1>3. CASE Renamed \/ Published
  <2>1. /\ \A q \in Path : q # It => name'["installed"][q] = name["installed"][q]
        /\ name'["installed"][It] \in {name["staged"][It]} \cup Unused
    BY <1>3 DEF Renamed, Published
  <2> QED
    BY <1>1, <2>1
<1>4. CASE Made
  <2>1. PICK q \in Path : Makes(q)
    BY <1>4 DEF Made
  <2>2. \A r \in Path :
          /\ name'["installed"][r] \in {name["installed"][r]} \cup Unused
          /\ Present("installed", r) => name'["installed"][r] = name["installed"][r]
    BY <2>1 DEF Makes
  <2> QED
    BY <1>1, <2>2
<1>5. CASE Moved
  <2>1. \A q \in Path :
          /\ name'["installed"][q] \in {name["installed"][q], name["staged"][It]}
          /\ Present("installed", q) => name'["installed"][q] = name["installed"][q]
    BY <1>5 DEF Moved
  <2> QED
    BY <1>1, <2>1
<1> QED
  BY <1>2, <1>3, <1>4, <1>5 DEF Performs

LEMMA UntouchedByCall ==
  ASSUME Base, Trees, Trees',
         Performs, NEW v \in View, Snapshot(v), ~Relic(v.cd), v.path # It, Untouched(v, name, node)
  PROVE  Untouched(v, name', node')
<1>1. FsOK /\ Works(It) /\ FsOK' /\ Ages /\ It \in Path /\ v.path \in Path
  BY Performing, ActFacts, InHand, Views DEF Base, Types
<1> SUFFICES ASSUME NEW t \in Tree
             PROVE  LET i == v.cd[t].inode
                    IN /\ name'[t][v.path] = i
                       /\ \A u \in Tree, q \in Path : name'[u][q] = i => u = t /\ q = v.path
                       /\ node'[i].type = v.cd[t].type /\ node'[i].mode = v.cd[t].mode
                       /\ node'[i].owner = v.cd[t].owner
                       /\ v.cd[t].type # "directory" => node'[i].ctime = 0
  BY DEF Untouched
<1> DEFINE i == v.cd[t].inode
<1>2. i \in Ino /\ i # NoIno
  BY BothThere
<1>3. /\ name[t][v.path] = i
      /\ \A u \in Tree, q \in Path : name[u][q] = i => u = t /\ q = v.path
      /\ node[i].type = v.cd[t].type /\ node[i].mode = v.cd[t].mode /\ node[i].owner = v.cd[t].owner
      /\ v.cd[t].type # "directory" => node[i].ctime = 0
  BY DEF Untouched
<1> HIDE DEF i
<1>4. name'[t][v.path] = i
  BY <1>1, <1>2, <1>3, NewNames DEF Present
<1>5. \A u \in Tree, q \in Path : name'[u][q] = i => u = t /\ q = v.path
  <2> SUFFICES ASSUME NEW u \in Tree, NEW q \in Path, name'[u][q] = i
               PROVE  u = t /\ q = v.path
    OBVIOUS
  <2>1. i \notin Unused
    BY <1>1, <1>3, FreeMeansFree
  <2>2. name["staged"][It] # i
    BY <1>1, <1>3 DEF Tree
  <2> QED
    BY <1>2, <1>3, <2>1, <2>2, NewNames
<1>6. node[i] \in Node /\ node[i] # NoNode /\ node'[i] # NoNode
  BY <1>1, <1>2, <1>3, <1>4 DEF FsOK
<1>7. CASE node'[i] = node[i]
  BY <1>3, <1>4, <1>5, <1>7 DEF i
<1>8. CASE node'[i] # node[i]
  <2>1. \A u \in Tree : name[u][It] # i
    BY <1>1, <1>3
  <2>2. /\ node'[i] = Stamped(node[i], 1)
        /\ \E u \in Tree, r \in Path : \E q \in Parent(r) : name'[u][r] # name[u][r] /\ name'[u][q] = i
    BY <1>1, <1>2, <1>6, <1>8, <2>1 DEF Works
  <2>3. PICK u \in Tree, r \in Path : \E q \in Parent(r) : name'[u][r] # name[u][r] /\ name'[u][q] = i
    BY <2>2
  <2>4. PICK q \in Parent(r) : name'[u][q] = i
    BY <2>3
  <2>5. q \in Above[r] /\ q \in Path
    BY PathAssumption DEF Parent
  <2>6. u = t /\ q = v.path
    BY <1>5, <2>4, <2>5
  <2>7. IsDirectory(t, q) \/ IsDirectory(t, q)'
    BY <2>3, <2>5, <2>6 DEF Trees, WellFormed, Present
  <2>8. node[i].type = "directory"
    <3>1. node'[i].type = node[i].type
      BY <1>1, <1>2, <1>6 DEF Ages
    <3> QED
      BY <1>3, <1>4, <2>6, <2>7, <3>1 DEF IsDirectory, At
  <2>9. node'[i].type = node[i].type /\ node'[i].mode = node[i].mode /\ node'[i].owner = node[i].owner
    BY <1>6, <2>2, StampedNode
  <2> QED
    BY <1>3, <1>4, <1>5, <2>8, <2>9 DEF i
<1> QED
  BY <1>7, <1>8

LEMMA UndisturbedStep ==
  ASSUME Base, Trees, Trees', Undisturbed, [Next]_vars
  PROVE  Undisturbed'
<1>1. /\ FsOK /\ edits \in Nat
      /\ \A k \in DOMAIN todo : todo[k] \in View /\ Snapshot(todo[k])
  BY DEF Base, Types, Scene
<1>2. CASE todo' = <<>>
  BY <1>2 DEF Undisturbed
<1>3. CASE UNCHANGED <<name, node, todo, edits>> /\ (pc \in Acting => pc' \in Acting)
  BY <1>3 DEF Undisturbed
<1>4. CASE Intrudes
  <2>1. edits' # 0
    BY <1>4, IntrudeFacts
  <2> QED
    BY <2>1 DEF Undisturbed
<1>5. CASE Scan /\ pc' # "failed"
  <2>1. FsOK /\ Shared /\ name' = name
    BY <1>5, ScanFacts
  <2>2. /\ \A k \in DOMAIN todo' :
             /\ todo'[k] = Scanned(todo'[k].path) /\ todo'[k].path \in Path
             /\ Snapshot(todo'[k])
        /\ \A i \in Ino : node[i] # NoNode =>
             /\ node'[i].type = node[i].type /\ node'[i].mode = node[i].mode
             /\ node'[i].owner = node[i].owner /\ node'[i].ctime = 0
    BY <1>5, <2>1, Scans
  <2>3. ASSUME NEW p \in Path, Snapshot(Scanned(p)), Scanned(p).alone, ~Relic(Scanned(p).cd)
        PROVE  Untouched(Scanned(p), name', node')
    <3> DEFINE v == Scanned(p)
    <3>1. /\ v \in View /\ v.path = p
          /\ v.alone <=> \A t, u \in Tree : \A q \in Path :
                           name[t][p] = name[u][q] => <<t, p>> = <<u, q>> \/ ~Present(t, p)
      BY <2>1, ScannedFields, Zenon
    <3>2. \A t \in Tree : /\ v.cd[t] = [Sees(t, p) EXCEPT !.ctime = 0]
                          /\ v.was[t] = IF Present(t, p) THEN Stamped(At(t, p), 0) ELSE NoNode
      BY <2>1, ScannedFields DEF Tree
    <3>3. \A t \in Tree : v.was[t] # NoNode
      BY <2>3, <3>1, BothThere
    <3>4. \A t \in Tree : Present(t, p)
      BY <3>2, <3>3
    <3>5. \A t \in Tree :
            /\ v.cd[t].inode = name[t][p] /\ name[t][p] \in Ino /\ At(t, p) # NoNode
            /\ v.cd[t].type = At(t, p).type /\ v.cd[t].mode = At(t, p).mode
            /\ v.cd[t].owner = At(t, p).owner
      BY <2>1, <3>2, <3>4, SeenFingerprint
    <3>6. \A t, u \in Tree : \A q \in Path : name[t][p] = name[u][q] => t = u /\ p = q
      BY <2>3, <3>1, <3>4
    <3> HIDE DEF v
    <3>7. Untouched(v, name', node')
      BY <2>1, <2>2, <3>1, <3>5, <3>6 DEF Untouched, At
    <3> QED
      BY <3>7 DEF v
  <2> QED
    BY <2>2, <2>3 DEF Undisturbed
<1>6. ASSUME todo # <<>>, Advance, edits' = edits,
             \A k \in DOMAIN todo : k # 1 /\ ~Relic(todo[k].cd) /\ Untouched(todo[k], name, node) =>
               Untouched(todo[k], name', node')
      PROVE  Undisturbed'
  <2>1. \A k \in DOMAIN todo' : k + 1 # 1 /\ k + 1 \in DOMAIN todo /\ todo'[k] = todo[k + 1]
    BY <1>6, Advances
  <2> QED
    BY <1>6, <2>1 DEF Undisturbed
<1>7. CASE Skip \/ (ShowDryRun /\ pc' # "failed")
  <2>1. todo # <<>> /\ Advance /\ UNCHANGED <<name, node, edits>>
    BY <1>7, SkipFacts, ShowFacts
  <2> QED
    BY <1>6, <2>1
<1>8. CASE Performs
  <2>1. /\ todo # <<>> /\ edits' = edits
        /\ \/ pc' \in Acting /\ todo' = todo
           \/ Advance
    BY <1>8, Performing, ActFacts
  <2>2. \A k \in DOMAIN todo : k # 1 => todo[k].path # It
    BY <2>1, InHand DEF Base, Scene
  <2>3. \A k \in DOMAIN todo : k # 1 /\ ~Relic(todo[k].cd) /\ Untouched(todo[k], name, node) =>
          Untouched(todo[k], name', node')
    BY <1>1, <1>8, <2>2, UntouchedByCall
  <2>4. CASE Advance
    BY <1>6, <2>1, <2>3, <2>4
  <2>5. CASE pc' \in Acting /\ todo' = todo
    BY <2>1, <2>3, <2>5 DEF Undisturbed
  <2> QED
    BY <2>1, <2>4, <2>5
<1>9. CASE Fail \/ Finish \/ Sweep
  <2>1. todo' = <<>>
    BY <1>9, FailFacts, FinishFacts, SweepFacts
  <2> QED
    BY <1>2, <2>1
<1>10. CASE Asks \/ Begins \/ Swept \/ UNCHANGED vars
  <2>1. UNCHANGED <<name, node, todo, edits>> /\ (pc \in Acting => pc' \in Acting)
    BY <1>10, AskFacts, BeginFacts, SweptFacts, SameFacts DEF Acting
  <2> QED
    BY <1>3, <2>1
<1> QED
  BY <1>4, <1>5, <1>7, <1>8, <1>9, <1>10, Steps

LEMMA UntouchedMatches ==
  ASSUME Base, Trees, NEW v \in View, Snapshot(v), ~Relic(v.cd), Untouched(v, name, node)
  PROVE  StillMatches(v)
<1>1. \A t \in Tree :
        /\ v.path \in Path /\ v.cd[t].exists /\ v.cd[t].ctime = 0
        /\ v.cd[t].inode # NoIno /\ name[t][v.path] = v.cd[t].inode
        /\ At(t, v.path).type = v.cd[t].type /\ At(t, v.path).mode = v.cd[t].mode
        /\ At(t, v.path).owner = v.cd[t].owner
        /\ v.cd[t].type # "directory" => At(t, v.path).ctime = 0
  BY BothThere DEF Untouched, At
<1>2. ~Unreachable("installed", v.path)
  BY <1>1 DEF Unreachable, Trees, WellFormed, Present, Tree
<1>3. \A t \in Tree : FingerprintMatches(v.cd[t], Sees(t, v.path))
  <2> TAKE t \in Tree
  <2>1. Sees(t, v.path) = [exists |-> TRUE, inode |-> name[t][v.path], type |-> At(t, v.path).type,
          mode |-> At(t, v.path).mode, owner |-> At(t, v.path).owner, ctime |-> At(t, v.path).ctime]
    BY <1>1 DEF Sees, Observe, At
  <2> DEFINE e == v.cd[t]
             a == Sees(t, v.path)
  <2>2. /\ a.exists = TRUE /\ a.inode = name[t][v.path] /\ a.type = At(t, v.path).type
        /\ a.mode = At(t, v.path).mode /\ a.owner = At(t, v.path).owner
        /\ a.ctime = At(t, v.path).ctime
    BY <2>1
  <2>3. e \in Fingerprint
    BY Views
  <2> HIDE DEF a
  <2>4. /\ e.exists = TRUE /\ e.ctime = 0 /\ name[t][v.path] = e.inode
        /\ At(t, v.path).type = e.type /\ At(t, v.path).mode = e.mode
        /\ At(t, v.path).owner = e.owner
        /\ e.type # "directory" => At(t, v.path).ctime = 0
    BY <1>1, <2>3 DEF Fingerprint
  <2> HIDE DEF e
  <2>5. FingerprintMatches(e, a)
    BY <2>2, <2>4 DEF FingerprintMatches
  <2> QED
    BY <2>5 DEF e, a
<1> QED
  BY <1>2, <1>3 DEF StillMatches

(* Whatever is decided for one candidate, the others of its scan can still *)
(* be decided while nobody else interferes: a call touches its own two     *)
(* objects, new ones, and directories, which are compared without times.   *)
(* (candidate_access::fingerprint_matches, move_noreplace)                 *)
THEOREM SiblingsAreFresh == Spec => []SiblingsStayFresh
<1>1. Init => Undisturbed
  BY DEF Init, Undisturbed
<1>2. Base /\ Trees /\ Trees' /\ Undisturbed /\ [Next]_vars => Undisturbed'
  BY UndisturbedStep
<1>3. Base /\ Trees /\ Undisturbed => SiblingsStayFresh
  <2>1. Base => \A k \in DOMAIN todo : todo[k] \in View /\ Snapshot(todo[k])
    BY DEF Base, Types, Scene
  <2> QED
    BY <2>1, UntouchedMatches DEF Undisturbed, SiblingsStayFresh
<1> QED
  BY <1>1, <1>2, <1>3, Grounded, Rooted, PTL DEF Spec

------------------------------------------------------------------------------
(* What a complete session leaves.                                         *)

(* With nothing skipped, what is in the staging tree is still to be dealt  *)
(* with, a directory, or has arrived since; ...                            *)
Remaining(p) ==
  \/ \E k \in DOMAIN todo : todo[k].path = p
  \/ IsDirectory("staged", p) \/ p \in arrived

(* ... and once the sweep has passed a directory, only what arrived, and   *)
(* is not itself going to be swept, keeps it.                              *)
Passed(p) ==
  \/ p \in arrived
  \/ \E k \in DOMAIN sweep : sweep[k] = p
  \/ \E r \in arrived : /\ p \in Above[r] /\ Present("staged", r)
                        /\ \A k \in DOMAIN sweep : sweep[k] # r

Emptied ==
  ~dry_run /\ skipped = {} =>
    /\ pc \in Busy \cup {"next"} => \A p \in Path : Present("staged", p) => Remaining(p)
    /\ pc \in {"sweep", "done"} => \A p \in Path : Present("staged", p) => Passed(p)

(* A name that a call leaves behind is that of a directory, or of what     *)
(* others put there in its course.                                         *)
LEMMA LeftBehind ==
  ASSUME Base, Trees, Held, Performs, Advance, name'["staged"][It] # NoIno
  PROVE  IsDirectory("staged", It) \/ It \in arrived
<1>1. /\ pc \in Acting /\ pc' = "next" /\ It \in Path /\ <<call.op, pc>> \in Stages
      /\ WellFormed("staged")
  BY Performing, UnderWay DEF Acts, Advance, Trees, Tree
<1>2. CASE Dressed
  <2>1. pc = "dress" /\ call.op # "keep" /\ name' = name
    BY <1>1, <1>2 DEF Dressed, Goes
  <2>2. call.op = "install"
    BY <1>1, <2>1 DEF Stages, Starts
  <2> QED
    BY <1>1, <2>1, <2>2 DEF Held
<1>3. CASE Retired
  <2>1. name' = name /\ ~(Present("staged", It) /\ Below("staged", It) = {})
    BY <1>3 DEF Retired
  <2>2. Below("staged", It) # {}
    BY <2>1 DEF Present
  <2> QED
    BY <1>1, <2>2, NothingBelow DEF Tree
<1>4. CASE Renamed \/ Published \/ Made
  BY <1>1, <1>4 DEF Renamed, Published, Made, Goes
<1>5. CASE Moved
  BY <1>5 DEF Moved
<1> QED
  BY <1>2, <1>3, <1>4, <1>5 DEF Performs

LEMMA EmptiedByCall ==
  ASSUME Base, Trees, Held, NEW p \in Path, name'["staged"][p] # NoIno,
         Present("staged", p) => Remaining(p), Performs
  PROVE  Remaining(p)'
<1>1. /\ todo # <<>> /\ Ages /\ arrived' = arrived /\ Works(It) /\ FsOK /\ FsOK'
      /\ (pc' \in Acting /\ todo' = todo) \/ Advance
  BY Performing, ActFacts DEF Base, Types
<1>2. todo[1].path = It
  BY <1>1, InHand
<1>3. name'["staged"][p] = name["staged"][p] /\ Present("staged", p)
  BY <1>1 DEF Works, Present
<1>4. CASE IsDirectory("staged", p)
  <2>1. IsDirectory("staged", p)'
    BY <1>1, <1>3, <1>4, StaysDirectory DEF Tree
  <2> QED
    BY <2>1 DEF Remaining
<1>5. CASE p \in arrived
  BY <1>1, <1>5 DEF Remaining
<1>6. CASE todo' = todo
  BY <1>3, <1>4, <1>5, <1>6 DEF Remaining
<1>7. CASE Advance
  <2>1. \A k \in DOMAIN todo : k # 1 => k - 1 \in DOMAIN todo' /\ todo'[k - 1] = todo[k]
    BY <1>1, <1>7, Advances
  <2>2. CASE p = It
    BY <1>4, <1>5, <1>7, <2>2, LeftBehind
  <2>3. ASSUME NEW k \in DOMAIN todo, todo[k].path = p, p # It
        PROVE  Remaining(p)'
    <3>1. k - 1 \in DOMAIN todo' /\ todo'[k - 1].path = p
      BY <1>2, <2>1, <2>3
    <3> QED
      BY <3>1 DEF Remaining
  <2> QED
    BY <1>3, <1>4, <1>5, <2>2, <2>3 DEF Remaining
<1> QED
  BY <1>1, <1>6, <1>7

LEMMA EmptiedBySweep ==
  ASSUME Base, Cleaning, Sweep, \A q \in Path : Present("staged", q) => Passed(q),
         NEW p \in Path, name'["staged"][p] # NoIno
  PROVE  Passed(p)'
<1> DEFINE h == Head(sweep)
<1>1. /\ arrived' = arrived /\ h \in Path /\ h = sweep[1] /\ 1 \in DOMAIN sweep
      /\ \A q \in Path : q # h => name'["staged"][q] = name["staged"][q]
      /\ name'["staged"][h] \in {NoIno, name["staged"][h]}
      /\ Present("staged", h) /\ Below("staged", h) = {} => name'["staged"][h] = NoIno
      /\ ~(Present("staged", h) /\ Below("staged", h) = {}) => UNCHANGED <<name, node>>
      /\ \A k \in DOMAIN sweep' : k + 1 \in DOMAIN sweep /\ sweep'[k] = sweep[k + 1]
      /\ \A k \in DOMAIN sweep : k # 1 => k - 1 \in DOMAIN sweep' /\ sweep'[k - 1] = sweep[k]
  BY SweepFacts
<1>2. \A k \in DOMAIN sweep : sweep[k] \in Path /\ k \in 1 .. Len(sweep)
  BY DEF Base, Types
<1>3. arrived \subseteq Path
  BY DEF Base, Types
<1> HIDE DEF h
<1>4. Present("staged", p)
  BY <1>1 DEF Present
<1>5. CASE p \in arrived
  BY <1>1, <1>5 DEF Passed
<1>6. ASSUME NEW r \in arrived, p \in Above[r], Present("staged", r), \A k \in DOMAIN sweep : sweep[k] # r
      PROVE  Passed(p)'
  <2>1. r # h /\ \A k \in DOMAIN sweep' : sweep'[k] # r
    BY <1>1, <1>6
  <2>2. name'["staged"][r] # NoIno
    BY <1>1, <1>3, <1>6, <2>1 DEF Present
  <2> QED
    BY <1>1, <1>6, <2>1, <2>2 DEF Passed, Present
<1>7. ASSUME NEW k \in DOMAIN sweep, sweep[k] = p, p # h
      PROVE  Passed(p)'
  <2>1. k - 1 \in DOMAIN sweep' /\ sweep'[k - 1] = p
    BY <1>1, <1>7
  <2> QED
    BY <2>1 DEF Passed
<1>8. CASE p = h
  <2>1. PICK q \in Below("staged", h) : TRUE
    BY <1>1, <1>4, <1>8
  <2>2. q \in Path /\ h \in Above[q] /\ Present("staged", q)
    BY <2>1 DEF Below
  <2>3. /\ Cardinality(Above[h]) < Cardinality(Above[q])
        /\ Cardinality(Above[h]) \in Nat /\ Cardinality(Above[q]) \in Nat
    BY <1>1, <2>2, Depths
  <2>4. \A k \in DOMAIN sweep : sweep[k] # q
    <3> SUFFICES ASSUME NEW k \in DOMAIN sweep, sweep[k] = q
                 PROVE  FALSE
      OBVIOUS
    <3>1. q # h
      BY <2>2, PathAssumption
    <3>2. 1 < k
      BY <1>1, <1>2, <3>1
    <3>3. Cardinality(Above[sweep[1]]) >= Cardinality(Above[sweep[k]])
      BY <1>1, <3>2 DEF Cleaning
    <3> QED
      BY <1>1, <2>3, <3>3
  <2>5. Passed(q)
    BY <2>2
  <2>6. CASE q \in arrived
    BY <1>6, <1>8, <2>2, <2>4, <2>6
  <2>7. ASSUME NEW r \in arrived, q \in Above[r], Present("staged", r),
               \A k \in DOMAIN sweep : sweep[k] # r
        PROVE  Passed(p)'
    <3>1. p \in Above[r]
      BY <1>3, <1>8, <2>2, <2>7, PathAssumption
    <3> QED
      BY <1>6, <2>7, <3>1
  <2> QED
    BY <2>4, <2>5, <2>6, <2>7 DEF Passed
<1>9. Passed(p)
  BY <1>4
<1> QED
  BY <1>5, <1>6, <1>7, <1>8, <1>9 DEF Passed

LEMMA EmptiedStep ==
  ASSUME Base, Trees, Held, Cleaning, Emptied, [Next]_vars
  PROVE  Emptied'
<1>1. FsOK /\ FsOK' /\ pc \in Busy \cup {"scan", "next", "sweep", "done", "failed"}
  BY BaseStep DEF Base, Types
<1>2. CASE Fail
  BY <1>2, FailFacts DEF Emptied, Busy, Asking, Menu, Acting
<1>3. CASE Asks \/ Begins
  <2>1. /\ UNCHANGED <<name, node, todo, dry_run, skipped, arrived>>
        /\ pc \in Busy \cup {"next"} /\ pc' \in Busy
    BY <1>3, AskFacts, BeginFacts DEF Busy
  <2> QED
    BY <2>1 DEF Emptied, Remaining, Present, IsDirectory, At, Busy, Asking, Menu, Acting
<1>4. CASE Skip \/ (ShowDryRun /\ pc' # "failed")
  <2>1. dry_run' \/ skipped' # {}
    BY <1>4, SkipFacts, ShowFacts
  <2> QED
    BY <2>1 DEF Emptied
<1>5. CASE Scan /\ pc' # "failed"
  <2>1. FsOK /\ Shared /\ name' = name /\ pc' = "next"
    BY <1>5, ScanFacts
  <2>2. /\ \A p \in Path : Present("staged", p) /\ ~Structural(p) =>
             \E k \in DOMAIN todo' : todo'[k].path = p
        /\ \A i \in Ino : node[i] # NoNode => node'[i].type = node[i].type
    BY <1>5, <2>1, Scans
  <2>3. ASSUME NEW p \in Path, Present("staged", p)
        PROVE  Remaining(p)'
    <3>1. CASE Structural(p)
      <4>1. node[name["staged"][p]].type = "directory"
        BY <3>1 DEF Structural, IsDirectory, At
      <4>2. name["staged"][p] \in Ino /\ node[name["staged"][p]] # NoNode
        BY <2>1, <2>3 DEF FsOK, Present, Tree
      <4> QED
        BY <2>1, <2>2, <2>3, <4>1, <4>2 DEF Remaining, IsDirectory, Present, At
    <3>2. CASE ~Structural(p)
      BY <2>2, <2>3, <3>2 DEF Remaining
    <3> QED
      BY <3>1, <3>2
  <2>4. \A p \in Path : Present("staged", p)' => Remaining(p)'
    BY <2>1, <2>3 DEF Present
  <2> QED
    BY <2>1, <2>4 DEF Emptied
<1>6. CASE Performs
  <2>1. /\ pc \in Busy /\ pc' \in Busy \cup {"next"} /\ ~dry_run /\ skipped' = skipped
    BY <1>6, Performing, ActFacts
  <2>2. skipped' = {} => \A p \in Path : Present("staged", p)' => Remaining(p)'
    BY <1>6, <2>1, EmptiedByCall DEF Emptied, Present
  <2> QED
    BY <2>1, <2>2 DEF Emptied, Busy, Asking, Menu, Acting
<1>7. CASE Finish
  <2>1. /\ pc = "next" /\ todo = <<>> /\ UNCHANGED <<name, node, dry_run, skipped, arrived>>
        /\ dry_run \/ (pc' = "sweep" /\ sweep' = StagedDirectories)
    BY <1>7, FinishFacts
  <2>2. \A p \in Path : IsDirectory("staged", p) =>
          \E k \in DOMAIN StagedDirectories : StagedDirectories[k] = p
    BY DirectoriesSorted
  <2>3. ASSUME ~dry_run, skipped = {}, NEW p \in Path, Present("staged", p)
        PROVE  Passed(p)'
    <3>1. Remaining(p)
      BY <2>1, <2>3 DEF Emptied
    <3>2. IsDirectory("staged", p) \/ p \in arrived
      BY <2>1, <3>1 DEF Remaining
    <3> QED
      BY <2>1, <2>2, <2>3, <3>2 DEF Passed
  <2>4. ~dry_run /\ skipped = {} => \A p \in Path : Present("staged", p)' => Passed(p)'
    BY <2>1, <2>3 DEF Present
  <2>5. dry_run' = dry_run /\ skipped' = skipped /\ (pc' = "sweep" \/ dry_run)
    BY <2>1
  <2> QED
    BY <2>4, <2>5 DEF Emptied, Busy, Asking, Menu, Acting
<1>8. CASE Sweep
  <2>1. pc = "sweep" /\ UNCHANGED <<pc, dry_run, skipped>>
    BY <1>8, SweepFacts
  <2>2. ~dry_run /\ skipped = {} => \A p \in Path : Present("staged", p)' => Passed(p)'
    BY <1>8, <2>1, EmptiedBySweep DEF Emptied, Present
  <2> QED
    BY <2>1, <2>2 DEF Emptied, Busy, Asking, Menu, Acting
<1>9. CASE Swept
  <2>1. pc = "sweep" /\ pc' = "done" /\ UNCHANGED <<name, node, sweep, dry_run, skipped, arrived>>
    BY <1>9, SweptFacts
  <2> QED
    BY <2>1 DEF Emptied, Passed, Present, Busy, Asking, Menu, Acting
<1>10. CASE UNCHANGED vars
  BY <1>10, SameFacts DEF Emptied, Passed, Remaining, Present, IsDirectory, At
<1>11. CASE Intrudes
  <2>1. /\ UNCHANGED <<pc, todo, sweep, dry_run, skipped>> /\ Ages /\ arrived \subseteq arrived'
        /\ \A p \in Path :
             \/ name'["staged"][p] = name["staged"][p]
             \/ p \in arrived' /\ name'["staged"][p] # NoIno
    BY <1>11, IntrudeFacts
  <2>2. arrived \subseteq Path
    BY DEF Base, Types
  <2>3. ASSUME NEW p \in Path, Present("staged", p) => Remaining(p), name'["staged"][p] # NoIno
        PROVE  Remaining(p)'
    <3>1. CASE p \in arrived'
      BY <3>1 DEF Remaining
    <3>2. CASE name'["staged"][p] = name["staged"][p]
      <4>1. IsDirectory("staged", p) => IsDirectory("staged", p)'
        BY <1>1, <2>1, <3>2, StaysDirectory DEF Tree
      <4> QED
        BY <2>1, <2>3, <3>2, <4>1 DEF Remaining, Present
    <3> QED
      BY <2>1, <3>1, <3>2
  <2>4. ASSUME NEW p \in Path, Present("staged", p) => Passed(p), name'["staged"][p] # NoIno
        PROVE  Passed(p)'
    <3>1. CASE p \in arrived'
      BY <3>1 DEF Passed
    <3>2. CASE name'["staged"][p] = name["staged"][p]
      <4>1. \A r \in arrived : Present("staged", r) => r \in arrived' /\ Present("staged", r)'
        BY <2>1, <2>2 DEF Present
      <4> QED
        BY <2>1, <2>4, <3>2, <4>1 DEF Passed, Present
    <3> QED
      BY <2>1, <3>1, <3>2
  <2> QED
    BY <2>1, <2>3, <2>4 DEF Emptied, Present
<1> QED
  BY <1>2, <1>3, <1>4, <1>5, <1>6, <1>7, <1>8, <1>9, <1>10, <1>11, Steps

(* A session in which nothing is skipped leaves the staging tree empty but *)
(* for what arrived meanwhile and the directories it is in, however deep   *)
(* the tree: nothing is left for a second cleanup.                         *)
(* (cleanup_empty_directories, keep)                                       *)
THEOREM NothingIsLeft == Spec => []CompleteSessionLeavesNothing
<1>1. Init => Emptied
  BY DEF Init, Emptied, Busy, Asking, Menu, Acting
<1>2. Base /\ Trees /\ Held /\ Cleaning /\ Emptied /\ [Next]_vars => Emptied'
  BY EmptiedStep
<1>3. Base /\ Emptied => CompleteSessionLeavesNothing
  <2> SUFFICES ASSUME Base, Emptied, pc = "done", ~dry_run, skipped = {},
                      NEW p \in Path, Present("staged", p)
               PROVE  p \in arrived \/ Below("staged", p) \cap arrived # {}
    BY DEF CompleteSessionLeavesNothing
  <2>1. Passed(p) /\ sweep = <<>> /\ arrived \subseteq Path
    BY DEF Emptied, Base, Types, Flow
  <2> QED
    BY <2>1 DEF Passed, Below
<1> QED
  BY <1>1, <1>2, <1>3, Grounded, Rooted, CallsAreHeld, SweepsUpwards, PTL DEF Spec
==============================================================================
