---------------------------- MODULE AdmissionProofs ----------------------------
(***************************************************************************)
(* Proofs about Admission, for every configuration file, host, listing and *)
(* inspection: its type invariant and its five safety invariants.  Below   *)
(* them lie what filepath.Clean and filepath.Rel do to a path of any       *)
(* length, by induction in the form of a least counterexample, and that    *)
(* the two readers of a listing agree.                                     *)
(***************************************************************************)
EXTENDS Admission, WellFoundedInduction, SequenceTheorems, FiniteSetTheorems, TLAPS

-----------------------------------------------------------------------------
(* filepath.Clean and filepath.Rel. *)

\* The function that Clean takes its answer from.  Like every recursive function it is
\* a CHOOSE, and what it is to satisfy has to be shown of some function first.
Steps(names) ==
  CHOOSE upTo : upTo = [i \in 0 .. Len(names) |->
                          IF i = 0 THEN <<>> ELSE Descend(upTo[i - 1], names[i])]

\* A set of naturals that is not empty has a least element: the lemmas below look at
\* the shortest beginning of a path that would refute them.
LEMMA LeastNat ==
  ASSUME NEW T, T \subseteq Nat, T # {}
  PROVE  \E n \in T : \A m \in T : n <= m
<1> DEFINE R == OpToRel(<, Nat)
<1>1. IsWellFoundedOn(R, Nat)
  BY NatLessThanWellFounded
<1>2. \A m, n \in Nat : m < n => <<m, n>> \in R
  BY DEF OpToRel
<1> HIDE DEF R
<1>3. PICK n \in T : \A m \in T : ~ (<<m, n>> \in R)
  BY <1>1, WFMin
<1>4. \A m \in T : m \in Nat /\ n \in Nat /\ ~ (m < n)
  BY <1>2, <1>3
<1> QED
  BY <1>4

\* There is a function that satisfies the recursion of Clean, whatever the names.
LEMMA StepsDefined ==
  ASSUME NEW names, Len(names) \in Nat
  PROVE  /\ Steps(names) = [i \in 0 .. Len(names) |->
              IF i = 0 THEN <<>> ELSE Descend(Steps(names)[i - 1], names[i])]
         /\ Clean(names) = Steps(names)[Len(names)]
<1> DEFINE Upto(f, n) ==
             f = [i \in 0 .. n |-> IF i = 0 THEN <<>> ELSE Descend(f[i - 1], names[i])]
           Failing == {n \in 0 .. Len(names) : ~ \E f : Upto(f, n)}
<1>1. Failing = {}
  <2>1. SUFFICES ASSUME Failing # {} PROVE FALSE
    OBVIOUS
  <2>2. PICK n \in Failing : \A m \in Failing : n <= m
    <3>1. Failing \subseteq Nat
      OBVIOUS
    <3> HIDE DEF Failing
    <3> QED BY <2>1, <3>1, LeastNat
  <2>3. n # 0
    <3>1. Upto([i \in 0 .. 0 |-> <<>>], 0)
      OBVIOUS
    <3> QED BY <3>1, <2>2
  <2>4. n \in Nat /\ n - 1 \in 0 .. Len(names) /\ ~ (n <= n - 1)
    BY <2>2, <2>3
  <2>5. PICK f : Upto(f, n - 1)
    BY <2>2, <2>4
  <2> DEFINE g == [i \in 0 .. n |-> IF i = n THEN Descend(f[n - 1], names[n]) ELSE f[i]]
  <2>6. Upto(g, n)
    <3>1. ASSUME NEW i \in 0 .. n
          PROVE  g[i] = IF i = 0 THEN <<>> ELSE Descend(g[i - 1], names[i])
      <4>1. CASE i = n
        BY <4>1, <2>4, <2>3
      <4>2. CASE i # n
        <5>1. i \in 0 .. n - 1 /\ (i # 0 => i - 1 \in 0 .. n - 1)
          BY <4>2, <2>4
        <5>2. f[i] = IF i = 0 THEN <<>> ELSE Descend(f[i - 1], names[i])
          BY <5>1, <2>5
        <5>3. i # 0 => g[i - 1] = f[i - 1]
          BY <5>1, <2>4
        <5> QED BY <4>2, <5>1, <5>2, <5>3, <2>4
      <4> QED BY <4>1, <4>2
    <3> HIDE DEF g
    <3>2. g = [i \in 0 .. n |-> g[i]]
      BY DEF g
    <3> QED BY <3>1, <3>2
  <2> QED BY <2>2, <2>6
<1>2. \E f : Upto(f, Len(names))
  BY <1>1
<1>3. Upto(Steps(names), Len(names))
  BY <1>2 DEF Steps
<1>4. Clean(names) = Steps(names)[Len(names)]
  BY DEF Clean, Steps
<1> QED BY <1>3, <1>4

\* Nothing is left for filepath.Clean to do.
Plain(names) == \A i \in DOMAIN names : names[i] \notin {".", ".."}

\* One name of a path leads from a plain path to a plain path.
LEMMA DescendPlain ==
  ASSUME NEW N, NEW path \in Seq(N), Plain(path), NEW name \in N
  PROVE  Descend(path, name) \in Seq(N) /\ Plain(Descend(path, name))
<1>1. CASE name = "."
  BY <1>1 DEF Descend
<1>2. CASE name = ".." /\ path = <<>>
  BY <1>2 DEF Descend
<1>3. CASE name = ".." /\ path # <<>>
  <2>1. Descend(path, name) = SubSeq(path, 1, Len(path) - 1)
    BY <1>3 DEF Descend, Front
  <2> QED
    BY <2>1, SubSeqProperties DEF Plain
<1>4. CASE name \notin {".", ".."}
  <2>1. Descend(path, name) = Append(path, name)
    BY <1>4 DEF Descend
  <2> QED
    BY <2>1, <1>4, AppendProperties DEF Plain
<1> QED
  BY <1>1, <1>2, <1>3, <1>4

\* What Clean returns has no "." and no ".." in it, whatever it is given.
LEMMA CleanPlain ==
  ASSUME NEW N, NEW names \in Seq(N)
  PROVE  Clean(names) \in Seq(N) /\ Plain(Clean(names))
<1> DEFINE Good(path) == path \in Seq(N) /\ Plain(path)
           Failing == {n \in 0 .. Len(names) : ~ Good(Steps(names)[n])}
<1>1. Len(names) \in Nat
  OBVIOUS
<1>2. Good(<<>>)
  BY DEF Plain
<1>3. \A path : Good(path) => \A name \in N : Good(Descend(path, name))
  BY DescendPlain
<1>4. \A n \in 1 .. Len(names) : names[n] \in N
  OBVIOUS
<1> HIDE DEF Good
<1>5. Failing = {}
  <2>1. SUFFICES ASSUME Failing # {} PROVE FALSE
    OBVIOUS
  <2>2. PICK n \in Failing : \A m \in Failing : n <= m
    <3>1. Failing \subseteq Nat
      BY <1>1
    <3> HIDE DEF Failing
    <3> QED BY <2>1, <3>1, LeastNat
  <2>3. n # 0
    BY <1>1, <1>2, <2>2, StepsDefined
  <2>4. n \in Nat /\ n - 1 \in 0 .. Len(names) /\ ~ (n <= n - 1)
    BY <1>1, <2>2, <2>3
  <2>5. Good(Steps(names)[n - 1])
    BY <2>2, <2>4
  <2>6. Steps(names)[n] = Descend(Steps(names)[n - 1], names[n])
    BY <1>1, <2>2, <2>3, <2>4, StepsDefined
  <2>7. n \in 1 .. Len(names) /\ ~ Good(Steps(names)[n])
    BY <2>2, <2>3, <2>4
  <2> QED
    BY <1>3, <1>4, <2>5, <2>6, <2>7
<1> QED
  BY <1>1, <1>5, StepsDefined DEF Good

\* Clean leaves a plain path as it is.
LEMMA PlainIsClean ==
  ASSUME NEW N, NEW names \in Seq(N), Plain(names)
  PROVE  Clean(names) = names
<1> DEFINE Failing == {n \in 0 .. Len(names) : Steps(names)[n] # SubSeq(names, 1, n)}
<1>1. Len(names) \in Nat
  OBVIOUS
<1>2. Failing = {}
  <2>1. SUFFICES ASSUME Failing # {} PROVE FALSE
    OBVIOUS
  <2>2. PICK n \in Failing : \A m \in Failing : n <= m
    <3>1. Failing \subseteq Nat
      BY <1>1
    <3> HIDE DEF Failing
    <3> QED BY <2>1, <3>1, LeastNat
  <2>3. n # 0
    <3>1. Steps(names)[0] = <<>>
      BY <1>1, StepsDefined
    <3>2. SubSeq(names, 1, 0) = <<>>
      BY SubSeqEmpty
    <3> QED
      BY <2>2, <3>1, <3>2
  <2>4. n \in 1 .. Len(names) /\ n \in Nat /\ n - 1 \in 0 .. Len(names) /\ ~ (n <= n - 1)
    BY <1>1, <2>2, <2>3
  <2>5. Steps(names)[n - 1] = SubSeq(names, 1, n - 1)
    BY <2>2, <2>4
  <2>6. Steps(names)[n] = Descend(SubSeq(names, 1, n - 1), names[n])
    BY <1>1, <2>3, <2>4, <2>5, StepsDefined
  <2>7. Descend(SubSeq(names, 1, n - 1), names[n]) = Append(SubSeq(names, 1, n - 1), names[n])
    BY <2>4 DEF Descend, Plain
  <2>8. Append(SubSeq(names, 1, n - 1), names[n]) = SubSeq(names, 1, n)
    BY <2>4, SubSeqRecursiveSecond, AppendIsConcat, SubSeqProperties
  <2> QED
    BY <2>2, <2>6, <2>7, <2>8
<1> QED
  BY <1>1, <1>2, StepsDefined, SubSeqFull

\* The names Rel counts are the ones the paths share from the root on: all of the
\* parent's exactly when the parent is a prefix of the path.
LEMMA SharedNames ==
  ASSUME NEW N, NEW path \in Seq(N), NEW parent \in Seq(N),
         NEW shared,
         shared = Cardinality({n \in DOMAIN parent : IsPrefix(SubSeq(parent, 1, n), path)})
  PROVE  /\ shared \in 0 .. Len(parent)
         /\ IsPrefix(parent, path) <=> shared = Len(parent)
<1> DEFINE S == {n \in DOMAIN parent : IsPrefix(SubSeq(parent, 1, n), path)}
<1>1. Len(parent) \in Nat /\ Len(path) \in Nat /\ DOMAIN parent = 1 .. Len(parent)
  BY LenProperties
<1>2. IsFiniteSet(1 .. Len(parent)) /\ Cardinality(1 .. Len(parent)) = Len(parent)
  <2>1. \A n \in Nat : /\ IsFiniteSet(1 .. n)
                       /\ Cardinality(1 .. n) = IF 1 > n THEN 0 ELSE n - 1 + 1
    BY FS_Interval
  <2> QED
    BY <1>1, <2>1
<1>3. S \subseteq 1 .. Len(parent)
  BY <1>1
<1>4. shared \in 0 .. Len(parent)
  <2>1. IsFiniteSet(S) /\ Cardinality(S) <= Len(parent)
    BY <1>2, <1>3, FS_Subset
  <2>2. Cardinality(S) \in Nat
    BY <2>1, FS_CardinalityType
  <2> QED
    BY <1>1, <2>1, <2>2
<1>5. ASSUME IsPrefix(parent, path) PROVE shared = Len(parent)
  <2>1. ASSUME NEW n \in 1 .. Len(parent) PROVE IsPrefix(SubSeq(parent, 1, n), path)
    <3>1. /\ SubSeq(parent, 1, n) \in Seq(N) /\ Len(SubSeq(parent, 1, n)) = n
          /\ \A i \in 1 .. n : SubSeq(parent, 1, n)[i] = parent[i]
      BY <1>1, SubSeqProperties
    <3>2. Len(parent) <= Len(path) /\ SubSeq(parent, 1, Len(parent)) = SubSeq(path, 1, Len(parent))
      BY <1>5 DEF IsPrefix
    <3>3. \A i \in 1 .. Len(parent) : parent[i] = path[i]
      <4>1. \A i \in 1 .. Len(parent) : SubSeq(parent, 1, Len(parent))[i] = parent[i]
        BY <1>1, SubSeqProperties
      <4>2. \A i \in 1 .. Len(parent) : SubSeq(path, 1, Len(parent))[i] = path[i]
        BY <1>1, <3>2, SubSeqProperties
      <4> QED
        BY <3>2, <4>1, <4>2
    <3>4. /\ SubSeq(path, 1, n) \in Seq(N) /\ Len(SubSeq(path, 1, n)) = n
          /\ \A i \in 1 .. n : SubSeq(path, 1, n)[i] = path[i]
      BY <1>1, <3>2, SubSeqProperties
    <3>5. SubSeq(parent, 1, n) = SubSeq(path, 1, n)
      BY <3>1, <3>3, <3>4, <1>1, SeqEqual
    <3>6. SubSeq(SubSeq(parent, 1, n), 1, n) = SubSeq(parent, 1, n)
      BY <3>1, SubSeqFull
    <3> QED
      BY <1>1, <3>1, <3>2, <3>5, <3>6 DEF IsPrefix
  <2>2. S = 1 .. Len(parent)
    BY <1>3, <2>1
  <2> QED
    BY <1>2, <2>2
<1>6. ASSUME ~ IsPrefix(parent, path) PROVE shared # Len(parent)
  <2>1. parent # <<>>
    <3>1. SubSeq(<<>>, 1, 0) = <<>> /\ SubSeq(path, 1, 0) = <<>>
      BY SubSeqEmpty
    <3> QED
      BY <1>6, <1>1, <3>1 DEF IsPrefix
  <2>2. Len(parent) \in 1 .. Len(parent) /\ SubSeq(parent, 1, Len(parent)) = parent
    BY <1>1, <2>1, EmptySeq, SubSeqFull
  <2>3. Len(parent) \notin S
    BY <1>6, <2>2
  <2>4. S \subseteq 1 .. Len(parent) - 1
    BY <1>1, <1>3, <2>3
  <2>5. IsFiniteSet(1 .. Len(parent) - 1) /\ Cardinality(1 .. Len(parent) - 1) = Len(parent) - 1
    <3>1. \A n \in Nat : /\ IsFiniteSet(1 .. n)
                         /\ Cardinality(1 .. n) = IF 1 > n THEN 0 ELSE n - 1 + 1
      BY FS_Interval
    <3>2. Len(parent) - 1 \in Nat
      BY <1>1, <2>2
    <3> HIDE DEF S
    <3> QED
      BY <3>1, <3>2
  <2>6. Cardinality(S) <= Len(parent) - 1
    BY <2>4, <2>5, FS_Subset
  <2> QED
    BY <1>1, <1>4, <2>6
<1> QED
  BY <1>4, <1>5, <1>6

\* sameOrChild asks filepath.Rel for a way and looks whether that goes up first.  Of
\* a path that normalizePath has cleaned this is the question whether the parent is
\* a prefix of the path: the same directory or one below it, and no sibling.
THEOREM RelIsPrefixOrder ==
  ASSUME NEW N, NEW path \in Seq(N), Plain(path), NEW parent \in Seq(N)
  PROVE  SameOrChild(path, parent) <=> IsPrefix(parent, path)
<1> DEFINE shared == Cardinality({n \in DOMAIN parent : IsPrefix(SubSeq(parent, 1, n), path)})
           up == [i \in 1 .. Len(parent) - shared |-> ".."]
           down == SubSeq(path, shared + 1, Len(path))
           Names == N \cup {".."}
<1>1. shared \in 0 .. Len(parent) /\ (IsPrefix(parent, path) <=> shared = Len(parent))
  BY SharedNames
<1>2. Rel(parent, path) = up \o down
  BY DEF Rel
<1> HIDE DEF shared
<1>3. Len(parent) \in Nat /\ Len(path) \in Nat
  BY LenProperties
<1>4. up \in Seq(Names) /\ Len(up) = Len(parent) - shared
  <2>1. Len(parent) - shared \in Nat
    BY <1>1, <1>3
  <2>2. \A i \in 1 .. Len(parent) - shared : ".." \in Names
    OBVIOUS
  <2> QED
    BY <2>1, <2>2, IsASeq
<1>5. /\ down \in Seq(Names)
      /\ Len(down) = IF shared + 1 <= Len(path) THEN Len(path) - shared ELSE 0
      /\ \A i \in 1 .. Len(path) - shared : down[i] = path[shared + i]
  BY <1>1, <1>3, SubSeqProperties
<1>6. /\ up \o down \in Seq(Names) /\ Len(up \o down) = Len(up) + Len(down)
      /\ \A i \in 1 .. Len(up) + Len(down) :
           (up \o down)[i] = IF i <= Len(up) THEN up[i] ELSE down[i - Len(up)]
  BY <1>4, <1>5, ConcatProperties
<1>7. \A i \in 1 .. Len(parent) - shared : up[i] = ".."
  OBVIOUS
<1> HIDE DEF up, down, Names
<1>8. Len(up) + Len(down) >= 1 => Head(up \o down) = (up \o down)[1]
  BY <1>4, <1>5, <1>6
<1>9. CASE IsPrefix(parent, path)
  <2>1. CASE Len(parent) = Len(path)
    <3>1. parent = path
      BY <1>9, <2>1, SubSeqFull DEF IsPrefix
    <3> QED
      BY <1>9, <3>1 DEF SameOrChild
  <2>2. CASE Len(parent) # Len(path)
    <3>1. Len(parent) < Len(path) /\ shared = Len(parent)
      BY <1>1, <1>3, <1>9, <2>2 DEF IsPrefix
    <3>2. Len(up) = 0 /\ Len(down) = Len(path) - Len(parent) /\ Len(down) >= 1
      BY <1>3, <1>4, <1>5, <3>1
    <3>3. (up \o down)[1] = path[Len(parent) + 1]
      BY <1>3, <1>5, <1>6, <3>1, <3>2
    <3>4. path[Len(parent) + 1] # ".."
      BY <1>3, <3>1, LenProperties DEF Plain
    <3> QED
      BY <1>2, <1>9, <1>4, <1>5, <3>2, <3>3, <3>4, <1>8 DEF SameOrChild
  <2> QED
    BY <2>1, <2>2
<1>10. CASE ~ IsPrefix(parent, path)
  <2>1. Len(up) >= 1
    BY <1>1, <1>3, <1>4, <1>10
  <2>2. (up \o down)[1] = ".."
    <3>1. 1 \in 1 .. Len(up) + Len(down) /\ 1 <= Len(up) /\ 1 \in 1 .. Len(parent) - shared
      BY <1>1, <1>3, <1>4, <1>5, <2>1
    <3>2. up[1] = ".."
      BY <1>7, <3>1
    <3> QED
      BY <1>6, <3>1, <3>2
  <2>3. Head(up \o down) = ".."
    BY <1>3, <1>4, <1>5, <1>8, <2>1, <2>2
  <2>4. path # parent
    BY <1>3, <1>10 DEF IsPrefix
  <2> QED
    BY <1>2, <1>10, <2>3, <2>4 DEF SameOrChild
<1> QED
  BY <1>9, <1>10

\* A path may be normalized any number of times (SameWorkspace compares what the
\* configuration and `sbx ls` give, and neither is known to be clean).
THEOREM CleanIdempotent ==
  ASSUME NEW N, NEW names \in Seq(N)
  PROVE  Clean(Clean(names)) = Clean(names)
  BY CleanPlain, PlainIsClean

-----------------------------------------------------------------------------
(* Paths of a configuration. *)

\* Names that occur in paths; the provers do not know a given string to be in STRING.
PathNames ==
  STRING \cup {".ssh", ".claude", ".config", "clash", "Library", "Application Support",
               "clash-verge-rev", "Keychains"}

\* A path that is written down consists of such names.
LEMMA WrittenNames == Seq(STRING) \subseteq Seq(PathNames)
<1>1. STRING \subseteq PathNames
  BY DEF PathNames
<1> QED
  BY <1>1, SeqMonotonic

\* So does every forbidden path, configured or by default.
LEMMA ForbiddenWritten ==
  ASSUME NEW file \in ConfigFile, NEW path \in AllForbiddenPaths(file)
  PROVE  path.names \in Seq(PathNames)
<1>1. CASE path \in WrittenPath
  BY <1>1, WrittenNames DEF WrittenPath
<1>2. CASE path \in DefaultForbiddenPaths
  <2>1. /\ <<>> \in Seq(PathNames) /\ <<".ssh">> \in Seq(PathNames)
        /\ <<".claude">> \in Seq(PathNames) /\ <<".config", "clash">> \in Seq(PathNames)
        /\ <<"Library", "Application Support", "clash-verge-rev">> \in Seq(PathNames)
        /\ <<"Library", "Keychains">> \in Seq(PathNames)
    BY DEF PathNames
  <2> HIDE DEF PathNames
  <2>2. \A from : \A names \in Seq(PathNames) :
          path = Written(from, names) => path.names \in Seq(PathNames)
    BY DEF Written
  <2>3. \/ path = Written("home", <<>>) \/ path = Written("home", <<".ssh">>)
        \/ path = Written("home", <<".claude">>)
        \/ path = Written("home", <<".config", "clash">>)
        \/ path = Written("home", <<"Library", "Application Support", "clash-verge-rev">>)
        \/ path = Written("home", <<"Library", "Keychains">>)
        \/ path = Written("root", <<"Library", "Keychains">>)
    BY <1>2, Zenon DEF DefaultForbiddenPaths, HomePath
  <2> QED
    BY <2>1, <2>2, <2>3, Zenon
<1>3. path \in file.forbiddenPaths \cup DefaultForbiddenPaths
  BY DEF AllForbiddenPaths
<1>4. file.forbiddenPaths \subseteq WrittenPath
  BY DEF ConfigFile
<1> QED
  BY <1>1, <1>2, <1>3, <1>4

\* normalizePath yields a plain path wherever the path starts from.
LEMMA NormalPlain ==
  ASSUME NEW path, path.names \in Seq(PathNames)
  PROVE  NormalizePath(path) \in Seq(PathNames) /\ Plain(NormalizePath(path))
<1>1. Home \in Seq(PathNames) /\ WorkingDir \in Seq(PathNames)
  BY PolicyAssumption, WrittenNames
<1>2. PICK names \in Seq(PathNames) : NormalizePath(path) = Clean(names)
  <2>1. Home \o path.names \in Seq(PathNames) /\ WorkingDir \o path.names \in Seq(PathNames)
    BY <1>1, ConcatProperties
  <2> QED
    BY <2>1 DEF NormalizePath
<1> QED
  BY <1>2, CleanPlain

\* "~" is the home directory itself.
LEMMA HomeNormal == NormalizePath(HomePath) = Home
<1>1. Home \in Seq(STRING) /\ Plain(Home)
  BY PolicyAssumption DEF Plain
<1>2. NormalizePath(HomePath) = Clean(Home \o <<>>)
  BY DEF NormalizePath, HomePath, Written
<1>3. Home \o <<>> = Home
  BY <1>1, ConcatEmptySeq
<1> QED
  BY <1>1, <1>2, <1>3, PlainIsClean

\* What ValidateWorkspaceMount accepts is outside in terms of the prefix order, too.
LEMMA MountOutside ==
  ASSUME NEW file \in ConfigFile, ValidateWorkspaceMount(file)
  PROVE  /\ NormalizePath(file.mount) # Home
         /\ \A path \in AllForbiddenPaths(file) \ {HomePath} :
              ~ IsPrefix(NormalizePath(path), NormalizePath(file.mount))
<1>1. HomePath \in AllForbiddenPaths(file)
  BY DEF AllForbiddenPaths, DefaultForbiddenPaths, HomePath, BlankPath, Written
<1>2. NormalizePath(file.mount) # Home
  BY <1>1, HomeNormal DEF ValidateWorkspaceMount, ForbiddenPathIsHome
<1>3. ASSUME NEW path \in AllForbiddenPaths(file), path # HomePath
      PROVE  ~ IsPrefix(NormalizePath(path), NormalizePath(file.mount))
  <2>1. ~ SameOrChild(NormalizePath(file.mount), NormalizePath(path))
    BY <1>3 DEF ValidateWorkspaceMount, ForbiddenPathIsHome
  <2>2. NormalizePath(path) \in Seq(PathNames)
    BY ForbiddenWritten, NormalPlain
  <2>3. file.mount.names \in Seq(PathNames)
    <3>1. file.mount \in WrittenPath
      BY DEF ConfigFile
    <3>2. file.mount.names \in Seq(STRING)
      BY <3>1 DEF WrittenPath
    <3> QED
      BY <3>2, WrittenNames
  <2>4. NormalizePath(file.mount) \in Seq(PathNames) /\ Plain(NormalizePath(file.mount))
    BY <2>3, NormalPlain
  <2> QED
    BY <2>1, <2>2, <2>4, RelIsPrefixOrder
<1> QED
  BY <1>2, <1>3

-----------------------------------------------------------------------------
(* The two readers of a listing. *)

\* SelectInSeq finds a line of main if there is one.
LEMMA FirstMain ==
  ASSUME NEW lines \in Seq(ListingLine)
  PROVE  LET first == SelectInSeq(lines, IsMain)
         IN IF first = 0 THEN \A i \in DOMAIN lines : ~ IsMain(lines[i])
                         ELSE first \in DOMAIN lines /\ IsMain(lines[first])
<1> DEFINE I == {i \in 1 .. Len(lines) : IsMain(lines[i])}
<1>1. DOMAIN lines = 1 .. Len(lines) /\ Len(lines) \in Nat
  BY LenProperties
<1>2. SelectInSeq(lines, IsMain) = IF I # {} THEN Min(I) ELSE 0
  BY DEF SelectInSeq
<1>3. I \subseteq Nat /\ 0 \notin I
  BY <1>1
<1>4. \A i \in DOMAIN lines : IsMain(lines[i]) => i \in I
  BY <1>1
<1>5. \A i \in I : i \in DOMAIN lines /\ IsMain(lines[i])
  BY <1>1
<1> HIDE DEF I
<1>6. I # {} => Min(I) \in I
  BY <1>3, LeastNat DEF Min
<1> QED
  BY <1>2, <1>3, <1>4, <1>5, <1>6

\* A listing that inspectLeaseScope finds valid and without conflicts has no row but
\* main's, and inspectMainSandbox, which stops at the first line of that name, says
\* the same of it.
LEMMA ReadersAgree ==
  ASSUME NEW lines \in Seq(ListingLine), NEW expected,
         InspectLeaseScope(lines, expected).valid, InspectLeaseScope(lines, expected).conflicts = {}
  PROVE  /\ \A i \in Rows(lines) : IsMain(lines[i])
         /\ InspectedStatus(lines) \in {"running", "stopped", "absent"}
         /\ InspectLeaseScope(lines, expected).mainWasRunning <=> InspectedStatus(lines) = "running"
<1> DEFINE rows == Rows(lines)
           first == SelectInSeq(lines, IsMain)
<1>1. /\ \A i \in rows : RowValid(lines[i], expected)
      /\ \A i, j \in rows : IsMain(lines[i]) /\ IsMain(lines[j]) => i = j
      /\ {lines[i].name : i \in rows} \subseteq {"main"}
      /\ InspectLeaseScope(lines, expected).mainWasRunning
           <=> \E i \in rows : IsMain(lines[i]) /\ lines[i].status = "running"
  BY DEF InspectLeaseScope, ScopeOf
<1>2. \A i \in rows : IsMain(lines[i])
  BY <1>1 DEF IsMain
<1>3. \A i \in DOMAIN lines : IsMain(lines[i]) => i \in rows
  <2>1. \A i \in DOMAIN lines : lines[i] \in ListingLine
    OBVIOUS
  <2> QED
    BY <2>1 DEF ListingLine, IsMain, Rows
<1>4. rows \subseteq DOMAIN lines
  BY DEF Rows
<1> HIDE DEF rows
<1>5. CASE first = 0
  <2>1. \A i \in DOMAIN lines : ~ IsMain(lines[i])
    BY <1>5, FirstMain
  <2>2. InspectedStatus(lines) = "absent"
    BY <1>5 DEF InspectedStatus
  <2> QED
    BY <1>1, <1>2, <1>4, <2>1, <2>2 DEF rows
<1>6. CASE first # 0
  <2>1. first \in rows /\ IsMain(lines[first])
    BY <1>3, <1>6, FirstMain
  <2>2. lines[first].kind = "sandbox" /\ lines[first].status \in {"running", "stopped"}
    BY <1>1, <2>1 DEF RowValid
  <2>3. InspectedStatus(lines) = lines[first].status
    BY <1>6, <2>2 DEF InspectedStatus
  <2> QED
    BY <1>1, <1>2, <2>1, <2>2, <2>3 DEF rows
<1> QED
  BY <1>5, <1>6

-----------------------------------------------------------------------------
(* One variable of the inspected environment. *)

\* A variable that validateEnvironment accepts shows nothing it may not.
LEMMA VariableClean ==
  ASSUME NEW file, NEW name, NEW value \in ShownText,
         VariableValid(name, value, InspectionPolicy(file))
  PROVE  /\ name \in HerdrNames =>
              /\ file.supervision = "sandbox-local-herdr"
              /\ \/ name = "HERDR_ENV" /\ value.class = "1"
                 \/ name = "HERDR_SOCKET_PATH" /\ value = Text("path", file.herdr.socketPath)
                 \/ name = "HERDR_PANE_ID" /\ value = file.herdr.paneID
         /\ name \in ProxyNames => value.class \in {"blank", "local hosts", "gateway:3128"}
         /\ name \in SSHAgentNames => file.sshAgent
         /\ name = "SSH_AUTH_SOCK_GATEWAY" => value.class \in {"gateway:3128", "gateway"}
         /\ name \in (file.forbiddenEnv \cup DefaultForbiddenEnvNames \cup CredentialNames)
                      \ RuledNames =>
              name \in CredentialNames /\ value.class = "proxy-managed"
         /\ name \notin ProxyNames \cup {"HERDR_SOCKET_PATH", "SSH_AUTH_SOCK_GATEWAY"} =>
              ~ MentionsSensitivePath(value.path, InspectionPolicy(file))
<1> DEFINE allowed == InspectionPolicy(file)
<1>1. /\ allowed.sshAgent = file.sshAgent
      /\ allowed.herdr => /\ file.supervision = "sandbox-local-herdr"
                          /\ allowed.socketPath = file.herdr.socketPath
                          /\ allowed.paneID = file.herdr.paneID
      /\ allowed.forbiddenEnv = file.forbiddenEnv
  BY DEF InspectionPolicy
<1>2. ~ MentionsSensitivePath(<<>>, allowed)
  BY DEF MentionsSensitivePath
<1>3. value.class \in BareClasses => value.path = <<>>
  BY DEF ShownText
<1> HIDE DEF allowed
<1>4. /\ HerdrNames \cap ProxyNames = {} /\ HerdrNames \cap SSHAgentNames = {}
      /\ ProxyNames \cap SSHAgentNames = {}
      /\ HerdrNames \cup ProxyNames \cup SSHAgentNames = RuledNames
      /\ "SSH_AUTH_SOCK_GATEWAY" \in SSHAgentNames
  BY DEF HerdrNames, ProxyNames, SSHAgentNames, RuledNames
<1>5. CASE name \in HerdrNames
  <2>1. HerdrEnvValid(name, value, allowed)
    BY <1>5, <1>4, Zenon DEF VariableValid, allowed
  <2>2. name = "HERDR_ENV" => ~ MentionsSensitivePath(value.path, allowed)
    BY <1>2, <1>3, <2>1 DEF HerdrEnvValid, BareClasses
  <2> QED
    BY <1>1, <1>5, <2>1, <2>2
    DEF HerdrEnvValid, HerdrNames, ProxyNames, SSHAgentNames, RuledNames, allowed
<1>6. CASE name \in ProxyNames
  <2>1. ProxyEnvValid(name, value)
    BY <1>6, <1>4, Zenon DEF VariableValid
  <2>2. value.class \in {"blank", "local hosts", "gateway:3128"}
    <3>1. value = Blank => value.class = "blank"
      BY DEF Blank, Text
    <3>2. value # Blank => value.class \in {"local hosts", "gateway:3128"}
      BY <2>1, Zenon DEF ProxyEnvValid
    <3> QED
      BY <3>1, <3>2
  <2> QED
    BY <1>6, <2>2
    DEF HerdrNames, ProxyNames, SSHAgentNames, RuledNames
<1>7. CASE name \in SSHAgentNames
  <2>1. SSHAgentEnvValid(name, value, allowed)
    BY <1>7, <1>4, Zenon DEF VariableValid, allowed
  <2> QED
    BY <1>1, <1>7, <2>1
    DEF SSHAgentEnvValid, HerdrNames, ProxyNames, SSHAgentNames, RuledNames, allowed
<1>8. CASE name \notin HerdrNames \cup ProxyNames \cup SSHAgentNames
  <2>1. CASE IsForbiddenEnvName(name, allowed)
    <3>1. name \in CredentialNames /\ value.class = "proxy-managed"
      BY <1>8, <2>1 DEF VariableValid, allowed
    <3> QED
      BY <1>2, <1>3, <1>4, <1>8, <3>1 DEF BareClasses, allowed
  <2>2. CASE ~ IsForbiddenEnvName(name, allowed)
    <3>1. ~ MentionsSensitivePath(value.path, allowed)
      BY <1>8, <2>2 DEF VariableValid, allowed
    <3>2. name \notin file.forbiddenEnv \cup DefaultForbiddenEnvNames \cup CredentialNames
      BY <1>1, <2>2 DEF IsForbiddenEnvName
    <3> QED
      BY <1>4, <1>8, <3>1, <3>2 DEF allowed
  <2> QED
    BY <2>1, <2>2
<1> QED
  BY <1>5, <1>6, <1>7, <1>8

-----------------------------------------------------------------------------
(* The inductive invariant: each stage leaves behind what it has made sure of. *)

Preflight == {"host-inherited", "dedicated-gateway"}

\* Run reads a configuration only after Load has validated it.
Accepted == Loaded => Validate(config)

\* From the preflight on the target fits the configuration, and its mode is one of the two.
Chosen ==
  pc \in Preflight \cup {"inspect", "environment", "admitted"} =>
    TargetFits(target) /\ config.mode \in Preflight

\* Each preflight starts from nothing, and there is one.
NothingSeen ==
  pc \in {"load", "run"} \cup Preflight => host = Nothing /\ tun = "none" /\ listing = <<>>

\* The scope is the one of the listing, and only a valid one without conflicts goes on.
Scoped ==
  listing # <<>> /\ pc # "rejected" =>
    scope = InspectLeaseScope(listing, config.mount) /\ scope.valid /\ scope.conflicts = {}

\* The variables that have been looked at were found valid: all of them, at the end.
Looked ==
  pc \in {"environment", "admitted"} =>
    /\ seen \in Inspections
    /\ \A name \in DOMAIN seen.env \ left : VariableValid(name, seen.env[name], policy)
    /\ pc = "admitted" => left = {}

AdmissionInv ==
  AdmissionTypeOK /\ Accepted /\ Chosen /\ NothingSeen /\ Scoped /\ Looked /\ PreflightAgrees

\* It holds when the launcher starts.
LEMMA AdmissionInitInv == AdmissionInit => AdmissionInv
  BY DEF AdmissionInit, AdmissionInv, AdmissionTypeOK, Loaded, Accepted, Chosen, NothingSeen,
         Scoped, Looked, PreflightAgrees, Preflight

\* ApplyDefaults makes a configuration of a configuration.
LEMMA DefaultsTyped ==
  ASSUME NEW file \in ConfigFile
  PROVE  ApplyDefaults(file) \in ConfigFile
<1>1. file.mode \in Modes /\ file.supervision \in Supervisions
  BY DEF ConfigFile
<1>2. PICK mode \in Modes, supervision \in Supervisions :
        ApplyDefaults(file) = [file EXCEPT !.mode = mode, !.supervision = supervision]
  BY <1>1 DEF ApplyDefaults, Modes, Supervisions
<1> QED
  BY <1>2 DEF ConfigFile

\* One lemma for each action: Load and ApplyDefaults, ...
LEMMA LoadInv ==
  ASSUME AdmissionInv, LoadConfig
  PROVE  AdmissionInv'
<1>1. PICK file \in ConfigFiles :
        \/ Load(file) /\ config' = ApplyDefaults(file) /\ pc' = "run"
        \/ ~Load(file) /\ pc' = "rejected" /\ UNCHANGED config
  BY DEF LoadConfig
<1>2. pc = "load" /\ UNCHANGED <<target, preflightVars, inspectVars>>
  BY DEF LoadConfig
<1> USE DEF preflightVars, inspectVars
<1>3. config' \in ConfigFile \/ (pc' = "rejected" /\ UNCHANGED config)
  BY <1>1, ConfigurationAssumption, DefaultsTyped
<1>4. AdmissionTypeOK'
  BY <1>1, <1>2, <1>3 DEF AdmissionInv, AdmissionTypeOK, Loaded
<1>5. Accepted'
  BY <1>1 DEF Accepted, Loaded, Load
<1>6. Chosen' /\ Looked'
  BY <1>1 DEF Chosen, Looked, Preflight
<1>7. NothingSeen' /\ Scoped' /\ PreflightAgrees'
  BY <1>1, <1>2 DEF AdmissionInv, NothingSeen, Scoped, PreflightAgrees
<1> QED
  BY <1>4, <1>5, <1>6, <1>7 DEF AdmissionInv

\* ... the rest of Runner.Run, ...
LEMMA RunInv ==
  ASSUME AdmissionInv, Run
  PROVE  AdmissionInv'
<1> USE DEF preflightVars, inspectVars
<1>1. /\ pc = "run" /\ target' \in CommandTargets
      /\ UNCHANGED <<config, preflightVars, inspectVars>>
      /\ pc' = IF TargetFits(target') /\ config.backend = "docker-sandbox"
               THEN config.mode ELSE "rejected"
  BY DEF Run
<1>2. Validate(config) /\ config \in ConfigFile
  BY <1>1 DEF AdmissionInv, AdmissionTypeOK, Accepted, Loaded
<1>3. config.mode \in Preflight
  BY <1>2 DEF Validate, ValidateEgress, Preflight
<1>4. (pc' \in Preflight /\ TargetFits(target')) \/ pc' = "rejected"
  BY <1>1, <1>3
<1>5. AdmissionTypeOK'
  BY <1>1, <1>2, <1>4 DEF AdmissionInv, AdmissionTypeOK, Loaded, Preflight
<1>6. Accepted' /\ Chosen'
  BY <1>1, <1>2, <1>3, <1>4 DEF Accepted, Chosen, TargetFits, Preflight
<1>7. NothingSeen' /\ Looked' /\ Scoped' /\ PreflightAgrees'
  BY <1>1, <1>4 DEF AdmissionInv, NothingSeen, Looked, Scoped, PreflightAgrees, Preflight
<1> QED
  BY <1>5, <1>6, <1>7 DEF AdmissionInv

\* ... CheckClashVergeTUN, whose interface passes the check every later event repeats, ...
LEMMA CheckTUNInv ==
  ASSUME AdmissionInv, CheckTUN
  PROVE  AdmissionInv'
<1> USE DEF inspectVars
<1>1. /\ pc = "host-inherited" /\ host' \in Hosts
      /\ UNCHANGED <<config, target, listing, scope, inspectVars>>
  BY DEF CheckTUN
<1>2. \/ TUNReady(host') /\ pc' = "inspect" /\ tun' = StartupTUNInterface(host')
      \/ pc' = "rejected" /\ UNCHANGED tun
  BY DEF CheckTUN
<1>3. listing = <<>> /\ tun = "none"
  BY <1>1 DEF AdmissionInv, NothingSeen, Preflight
<1>4. TUNReady(host') /\ tun' = StartupTUNInterface(host') =>
        tun' \in TUNInterfaces /\ RuntimeRouteValid(host', tun')
  BY AdmissionAssumption
  DEF TUNReady, HasTUNPrefix, StartupTUNInterface, RuntimeRouteValid
<1>5. AdmissionTypeOK'
  BY <1>1, <1>2, <1>3, <1>4 DEF AdmissionInv, AdmissionTypeOK, Loaded
<1>6. Accepted' /\ Chosen'
  BY <1>1, <1>2 DEF AdmissionInv, Accepted, Loaded, Chosen, TargetFits, Preflight
<1>7. NothingSeen' /\ Looked' /\ Scoped'
  BY <1>1, <1>2, <1>3 DEF NothingSeen, Looked, Scoped, Preflight
<1>8. PreflightAgrees'
  BY <1>2, <1>3, <1>4 DEF PreflightAgrees
<1> QED
  BY <1>5, <1>6, <1>7, <1>8 DEF AdmissionInv

\* ... the listing of Acquire, ...
LEMMA CheckScopeInv ==
  ASSUME AdmissionInv, CheckScope
  PROVE  AdmissionInv'
<1> USE DEF inspectVars
<1>1. /\ pc = "dedicated-gateway" /\ listing' \in Listings
      /\ scope' = InspectLeaseScope(listing', config.mount)
      /\ UNCHANGED <<config, target, host, tun, inspectVars>>
  BY DEF CheckScope
<1>2. \/ pc' = "inspect" /\ scope'.valid /\ scope'.conflicts = {}
      \/ pc' = "rejected"
  BY DEF CheckScope
<1>3. tun = "none"
  BY <1>1 DEF AdmissionInv, NothingSeen, Preflight
<1>4. AdmissionTypeOK'
  BY <1>1, <1>2 DEF AdmissionInv, AdmissionTypeOK, Loaded
<1>5. Accepted' /\ Chosen'
  BY <1>1, <1>2 DEF AdmissionInv, Accepted, Loaded, Chosen, TargetFits, Preflight
<1>6. NothingSeen' /\ Looked' /\ Scoped' /\ PreflightAgrees'
  BY <1>1, <1>2, <1>3 DEF NothingSeen, Looked, Scoped, PreflightAgrees, Preflight
<1> QED
  BY <1>4, <1>5, <1>6 DEF AdmissionInv

\* ... ValidateInspection up to the environment, ...
LEMMA InspectInv ==
  ASSUME AdmissionInv, Inspect
  PROVE  AdmissionInv'
<1>1. /\ pc = "inspect" /\ seen' \in Inspections /\ left' = DOMAIN seen'.env
      /\ host' = Nothing /\ tun' = "none" /\ listing' = <<>>
      /\ UNCHANGED <<config, target>> /\ pc' \in {"environment", "rejected"}
  BY DEF Inspect
<1>2. AdmissionTypeOK'
  BY <1>1 DEF AdmissionInv, AdmissionTypeOK, Loaded
<1>3. Accepted' /\ Chosen'
  BY <1>1 DEF AdmissionInv, Accepted, Loaded, Chosen, TargetFits, Preflight
<1>4. NothingSeen' /\ Looked' /\ Scoped' /\ PreflightAgrees'
  BY <1>1 DEF NothingSeen, Looked, Scoped, PreflightAgrees, Preflight
<1> QED
  BY <1>2, <1>3, <1>4 DEF AdmissionInv

\* ... one round of validateEnvironment's loop, ...
LEMMA CheckVariableInv ==
  ASSUME AdmissionInv, CheckVariable
  PROVE  AdmissionInv'
<1> USE DEF preflightVars
<1>1. pc = "environment" /\ UNCHANGED <<config, target, preflightVars, seen>>
  BY DEF CheckVariable
<1>2. PICK name \in left :
        \/ VariableValid(name, seen.env[name], policy) /\ left' = left \ {name} /\ UNCHANGED pc
        \/ pc' = "rejected" /\ UNCHANGED left
  BY DEF CheckVariable, Continue
<1>3. policy' = policy
  BY <1>1 DEF policy
<1>4. AdmissionTypeOK'
  BY <1>1, <1>2 DEF AdmissionInv, AdmissionTypeOK, Loaded
<1>5. Accepted' /\ Chosen'
  BY <1>1, <1>2 DEF AdmissionInv, Accepted, Loaded, Chosen, TargetFits, Preflight
<1>6. Looked'
  BY <1>1, <1>2, <1>3 DEF AdmissionInv, Looked
<1>7. NothingSeen' /\ Scoped' /\ PreflightAgrees'
  BY <1>1, <1>2 DEF AdmissionInv, NothingSeen, Scoped, PreflightAgrees, Preflight
<1> QED
  BY <1>4, <1>5, <1>6, <1>7 DEF AdmissionInv

\* ... and the comparison of time zone and locale.
LEMMA CheckRuntimeInv ==
  ASSUME AdmissionInv, CheckRuntime
  PROVE  AdmissionInv'
<1> USE DEF preflightVars, inspectVars
<1>1. /\ pc = "environment" /\ left = {} /\ pc' \in {"admitted", "rejected"}
      /\ UNCHANGED <<config, target, preflightVars, inspectVars>>
  BY DEF CheckRuntime
<1>2. policy' = policy
  BY <1>1 DEF policy
<1>3. AdmissionTypeOK'
  BY <1>1 DEF AdmissionInv, AdmissionTypeOK, Loaded
<1>4. Accepted' /\ Chosen'
  BY <1>1 DEF AdmissionInv, Accepted, Loaded, Chosen, TargetFits, Preflight
<1>5. Looked'
  BY <1>1, <1>2 DEF AdmissionInv, Looked
<1>6. NothingSeen' /\ Scoped' /\ PreflightAgrees'
  BY <1>1 DEF AdmissionInv, NothingSeen, Scoped, PreflightAgrees, Preflight
<1> QED
  BY <1>3, <1>4, <1>5, <1>6 DEF AdmissionInv

\* So every step keeps the invariant, ...
LEMMA AdmissionStepInv == AdmissionInv /\ [AdmissionNext]_admissionVars => AdmissionInv'
<1> SUFFICES ASSUME AdmissionInv, [AdmissionNext]_admissionVars PROVE AdmissionInv'
  OBVIOUS
<1>1. CASE AdmissionNext
  BY <1>1, LoadInv, RunInv, CheckTUNInv, CheckScopeInv, InspectInv, CheckVariableInv,
     CheckRuntimeInv DEF AdmissionNext
<1>2. CASE UNCHANGED admissionVars
  BY <1>2 DEF admissionVars, preflightVars, inspectVars, AdmissionInv, AdmissionTypeOK, Loaded,
     Accepted, Chosen, TargetFits, NothingSeen, Scoped, Looked, PreflightAgrees, policy
<1> QED
  BY <1>1, <1>2

\* ... and it always holds.
LEMMA AdmissionInvariant == AdmissionSpec => []AdmissionInv
  BY AdmissionInitInv, AdmissionStepInv, PTL DEF AdmissionSpec

-----------------------------------------------------------------------------
(* What follows for every file, host, listing and inspection. *)

\* The admission keeps its types; a configuration is one from the first preflight on.
THEOREM AdmissionTypeCorrect == AdmissionSpec => []AdmissionTypeOK
<1>1. AdmissionInv => AdmissionTypeOK
  BY DEF AdmissionInv
<1> QED
  BY <1>1, AdmissionInvariant, PTL

\* What validate, GatewayValid, HerdrValid and the choice of the target make sure of
\* is all that the later stages use of a configuration without asking again.
THEOREM AcceptedUsable == AdmissionSpec => []ConfigUsable
<1>1. AdmissionInv => ConfigUsable
  <2> SUFFICES ASSUME AdmissionInv, Loaded PROVE ConfigUsable
    BY DEF ConfigUsable
  <2>1. Validate(config) /\ config \in ConfigFile
    BY DEF AdmissionInv, AdmissionTypeOK, Accepted
  <2>2. config.mode = "dedicated-gateway" => config.gateway # NoObject
    BY <2>1 DEF Validate, ValidateEgress, GatewayValid
  <2>3. config.supervision = "sandbox-local-herdr" =>
          config.template /\ config.herdr # NoObject /\ config.herdr.socketPath # <<>>
    BY <2>1 DEF Validate, SupervisionValid, HerdrValid
  <2>4. pc # "run" => TargetFits(target) /\ config.mode \in {"host-inherited", "dedicated-gateway"}
    BY DEF AdmissionInv, AdmissionTypeOK, Chosen, Loaded, Preflight
  <2>5. pc # "run" /\ target = "herdr" => policy.herdr
    BY <2>3, <2>4 DEF TargetFits, policy, InspectionPolicy
  <2> QED
    BY <2>2, <2>3, <2>4, <2>5 DEF ConfigUsable
<1> QED
  BY <1>1, AdmissionInvariant, PTL

\* By name, which is all ValidateWorkspaceMount compares: no way of writing the
\* workspace or a forbidden path, with "~", "." or ".." in it, gets a path accepted that
\* is forbidden or below a forbidden one.  Where a symbolic link leads is not asked.
THEOREM MountedOutside == AdmissionSpec => []WorkspaceOutside
<1>1. AdmissionInv => WorkspaceOutside
  <2> SUFFICES ASSUME AdmissionInv, Loaded PROVE WorkspaceOutside
    BY DEF WorkspaceOutside
  <2>1. ValidateWorkspaceMount(config) /\ config \in ConfigFile
    BY DEF AdmissionInv, AdmissionTypeOK, Accepted, Validate
  <2> QED
    BY <2>1, MountOutside DEF WorkspaceOutside
<1> QED
  BY <1>1, AdmissionInvariant, PTL

\* The interface CheckClashVergeTUN settles on is one validateRuntimeRoute accepts.
THEOREM PreflightHolds == AdmissionSpec => []PreflightAgrees
<1>1. AdmissionInv => PreflightAgrees
  BY DEF AdmissionInv
<1> QED
  BY <1>1, AdmissionInvariant, PTL

\* inspectLeaseScope and inspectMainSandbox agree on every listing with which a
\* lease goes on.
THEOREM ReadersOfListingAgree == AdmissionSpec => []ListingsAgree
<1>1. AdmissionInv => ListingsAgree
  <2> SUFFICES ASSUME AdmissionInv, listing # <<>>, pc # "rejected" PROVE ListingsAgree
    BY DEF ListingsAgree
  <2>1. listing \in Seq(ListingLine)
    BY AdmissionAssumption DEF AdmissionInv, AdmissionTypeOK
  <2>2. scope = InspectLeaseScope(listing, config.mount) /\ scope.valid /\ scope.conflicts = {}
    BY DEF AdmissionInv, Scoped
  <2> QED
    BY <2>1, <2>2, ReadersAgree DEF ListingsAgree
<1> QED
  BY <1>1, AdmissionInvariant, PTL

\* In whatever order Go ranges over the variables, every one of an admitted sandbox is
\* as validateEnvironment wants it: those of Herdr, of the proxy and of the SSH agent by
\* their own rules; of the other names that the configuration, the default list or a
\* fragment forbids only a credential's, with the proxy's placeholder; and none with a
\* forbidden path where paths are looked for.
THEOREM AdmittedClean == AdmissionSpec => []EnvironmentClean
<1>1. AdmissionInv => EnvironmentClean
  <2> SUFFICES ASSUME AdmissionInv, pc = "admitted", NEW name \in DOMAIN seen.env
               PROVE  VariableValid(name, seen.env[name], policy) /\ seen.env[name] \in ShownText
    BY VariableClean DEF EnvironmentClean, policy
  <2>1. seen \in Inspections /\ left = {}
    BY DEF AdmissionInv, Looked
  <2> QED
    BY <2>1, AdmissionAssumption DEF AdmissionInv, Looked, ShowsTexts
<1> QED
  BY <1>1, AdmissionInvariant, PTL

\* observationMentionsPath sees a path in every text that mentions one below it.
LEMMA BelowIsShown ==
  ASSUME NEW observed \in Seq(STRING), NEW path \in Seq(PathNames), IsPrefix(path, observed)
  PROVE  Shows(observed, path)
<1>1. Len(path) \in Nat /\ Len(observed) \in Nat
  BY LenProperties
<1>2. Len(path) <= Len(observed) /\ SubSeq(path, 1, Len(path)) = SubSeq(observed, 1, Len(path))
  BY DEF IsPrefix
<1>3. \A i \in 1 .. Len(path) : SubSeq(path, 1, Len(path))[i] = path[i]
  BY <1>1, SubSeqProperties
<1>4. \A i \in 1 .. Len(path) : SubSeq(observed, 1, Len(path))[i] = observed[i]
  BY <1>1, <1>2, SubSeqProperties
<1>5. \A i \in 1 .. Len(path) : observed[0 + i] = path[i]
  BY <1>1, <1>2, <1>3, <1>4
<1>6. 0 \in 0 .. Len(observed) - Len(path)
  BY <1>1, <1>2
<1> QED
  BY <1>5, <1>6 DEF Shows

\* The search for a mentioned path is a search in a text (observationMentionsPath).  In
\* terms of directories: no path that a variable of an admitted sandbox mentions is a
\* forbidden directory or below one, the exceptions of EnvironmentClean aside.
THEOREM AdmittedOutside ==
  AdmissionSpec =>
    [](pc = "admitted" =>
         \A name \in DOMAIN seen.env \ (ProxyNames \cup {"HERDR_SOCKET_PATH", "SSH_AUTH_SOCK_GATEWAY"}),
            path \in AllForbiddenPaths(config) \ {HomePath} :
           seen.env[name].path # <<>> =>
             ~ IsPrefix(NormalizePath(path), seen.env[name].path))
<1> DEFINE Except == ProxyNames \cup {"HERDR_SOCKET_PATH", "SSH_AUTH_SOCK_GATEWAY"}
           Outside == pc = "admitted" =>
             \A name \in DOMAIN seen.env \ Except, path \in AllForbiddenPaths(config) \ {HomePath} :
               seen.env[name].path # <<>> =>
                 ~ IsPrefix(NormalizePath(path), seen.env[name].path)
<1>1. AdmissionInv => Outside
  <2> SUFFICES ASSUME AdmissionInv, pc = "admitted", NEW name \in DOMAIN seen.env \ Except,
                      NEW path \in AllForbiddenPaths(config), path # HomePath,
                      seen.env[name].path # <<>>,
                      IsPrefix(NormalizePath(path), seen.env[name].path)
               PROVE  FALSE
    OBVIOUS
  <2>1. seen \in Inspections /\ VariableValid(name, seen.env[name], policy)
    BY DEF AdmissionInv, Looked
  <2>2. seen.env[name] \in ShownText
    BY <2>1, AdmissionAssumption DEF ShowsTexts
  <2>3. ~ MentionsSensitivePath(seen.env[name].path, policy)
    BY <2>1, <2>2, VariableClean DEF policy
  <2>4. config \in ConfigFile
    BY DEF AdmissionInv, AdmissionTypeOK, Loaded
  <2>5. path \in AllForbiddenPaths(policy)
    BY DEF AllForbiddenPaths, policy, InspectionPolicy
  <2>6. seen.env[name].path \in Seq(STRING) /\ NormalizePath(path) \in Seq(PathNames)
    BY <2>2, <2>4, ForbiddenWritten, NormalPlain DEF ShownText
  <2>7. Shows(seen.env[name].path, NormalizePath(path))
    BY <2>6, BelowIsShown
  <2> QED
    BY <2>3, <2>5, <2>7 DEF MentionsSensitivePath, ForbiddenPathIsHome
<1> QED
  BY <1>1, AdmissionInvariant, PTL
=============================================================================
