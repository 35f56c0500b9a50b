---------------------------- MODULE RoutingProofs ----------------------------
(***************************************************************************)
(* Where requests go, for every reference, registry map and set of mirrors *)
(* that RoutingAssumption admits.  First what the text of a path looks     *)
(* like from its end, which is how strippedBase and the library read it;   *)
(* then that both read the path back; then the three properties.           *)
(***************************************************************************)
EXTENDS Routing, WellFoundedInduction, TLAPS

Tokens == UNION {{"/"}, Components}

Path == Seq(Components) \ {<<>>}

\* The repository of an image ends with a component of the image's own.
RepoPath == {path \in Path : path[Len(path)] \notin Ported}

-----------------------------------------------------------------------------
(* The text of a path.                                                      *)

\* Components at the odd places, slashes between them.
LEMMA PathTextShape ==
    ASSUME NEW path \in Path
    PROVE  /\ Len(path) \in Nat \ {0}
           /\ PathText(path) \in Seq(Tokens)
           /\ Len(PathText(path)) = 2 * Len(path) - 1
           /\ \A i \in 1..Len(path) : PathText(path)[2 * i - 1] = path[i]
           /\ \A i \in 1..(Len(path) - 1) : PathText(path)[2 * i] = "/"
<1> DEFINE n == Len(path)
           f == [k \in 1..(2 * n - 1) |-> IF k % 2 = 1 THEN path[(k + 1) \div 2] ELSE "/"]
<1>1. n \in Nat \ {0} /\ \A i \in 1..n : path[i] \in Components
  BY DEF Path
<1>2. ASSUME NEW k \in 1..(2 * n - 1)
      PROVE  f[k] \in Tokens
  <2>1. CASE k % 2 = 1
    <3>1. (k + 1) \div 2 \in 1..n
      BY <1>1, <2>1
    <3> QED
      BY <1>1, <2>1, <3>1 DEF Tokens
  <2>2. CASE k % 2 # 1
    BY <2>2 DEF Tokens
  <2> QED
    BY <2>1, <2>2
<1>3. f \in Seq(Tokens) /\ Len(f) = 2 * n - 1
  <2>1. 2 * n - 1 \in Nat
    BY <1>1
  <2>2. f \in [1..(2 * n - 1) -> Tokens]
    BY <1>2
  <2>3. \A m \in Nat : \A g \in [1..m -> Tokens] : g \in Seq(Tokens) /\ Len(g) = m
    OBVIOUS
  <2> HIDE DEF f
  <2> QED
    BY <2>1, <2>2, <2>3
<1>4. ASSUME NEW i \in 1..n
      PROVE  f[2 * i - 1] = path[i]
  <2>1. /\ 2 * i - 1 \in 1..(2 * n - 1)
        /\ (2 * i - 1) % 2 = 1
        /\ ((2 * i - 1) + 1) \div 2 = i
    BY <1>1
  <2>2. \A k \in 1..(2 * n - 1) :
            k % 2 = 1 => f[k] = path[(k + 1) \div 2]
    OBVIOUS
  <2> HIDE DEF f
  <2>3. f[2 * i - 1] = path[((2 * i - 1) + 1) \div 2]
    BY <2>1, <2>2
  <2> QED
    BY <2>1, <2>3
<1>5. ASSUME NEW i \in 1..(n - 1)
      PROVE  f[2 * i] = "/"
  <2>1. 2 * i \in 1..(2 * n - 1) /\ (2 * i) % 2 # 1
    BY <1>1
  <2> QED
    BY <2>1
<1> HIDE DEF f
<1>6. PathText(path) = f
  BY DEF PathText, f
<1> QED
  BY <1>1, <1>3, <1>4, <1>5, <1>6

\* A set of natural numbers has a least element.
LEMMA Least ==
    ASSUME NEW T, T \subseteq Nat, T # {}
    PROVE  \E x \in T : \A y \in T : x <= y
<1>1. \E x \in T : \A y \in T : <<y, x>> \notin OpToRel(<, Nat)
  BY WFMin, NatLessThanWellFounded, Zenon
<1>2. \A x, y \in Nat : y < x => <<y, x>> \in OpToRel(<, Nat)
  BY DEF OpToRel
<1>3. \E x \in T : \A y \in T : ~(y < x)
  BY <1>1, <1>2, Zenon
<1> QED
  BY <1>3

\* A text has a last token of a kind, or none.
LEMMA LastInExists ==
    ASSUME NEW V, NEW t \in Seq(V), NEW toks
    PROVE  \E k \in 0..Len(t) : /\ k > 0 => t[k] \in toks
                               /\ \A j \in (k + 1)..Len(t) : t[j] \notin toks
<1> DEFINE n == Len(t)
           T == {i \in 0..n : i < n => t[n - i] \in toks}
<1>1. n \in Nat
  OBVIOUS
<1>2. n \in T /\ T \subseteq Nat
  BY <1>1
<1>3. PICK i \in T : \A j \in T : i <= j
  BY <1>2, Least
<1>4. n - i \in 0..n /\ (n - i > 0 => t[n - i] \in toks)
  BY <1>1
<1>5. ASSUME NEW j \in (n - i + 1)..n
      PROVE  t[j] \notin toks
  <2>1. n - j \in 0..n /\ n - j < i /\ n - (n - j) = j
    BY <1>1
  <2> QED
    BY <1>3, <2>1
<1> QED
  BY <1>4, <1>5

\* The last of several tokens is where one is and none comes after.
LEMMA LastInIs ==
    ASSUME NEW V, NEW t \in Seq(V), NEW toks,
           NEW k \in 0..Len(t), k > 0 => t[k] \in toks,
           \A j \in (k + 1)..Len(t) : t[j] \notin toks
    PROVE  LastIn(t, toks) = k
<1> DEFINE S == {0} \cup {j \in 1..Len(t) : t[j] \in toks}
<1>1. Len(t) \in Nat
  OBVIOUS
<1>2. k \in S /\ S \subseteq Nat /\ \A j \in S : k >= j
  BY <1>1
<1> HIDE DEF S
<1>3. \A x \in S : (\A j \in S : x >= j) => x = k
  BY <1>2
<1>4. Max(S) = k
  BY <1>2, <1>3 DEF Max
<1> QED
  BY <1>4 DEF LastIn, S

LEMMA LastInNone ==
    ASSUME NEW V, NEW t \in Seq(V), NEW toks,
           \A k \in 1..Len(t) : t[k] \notin toks
    PROVE  LastIn(t, toks) = 0
<1>1. 0 \in 0..Len(t) /\ \A j \in (0 + 1)..Len(t) : t[j] \notin toks
  OBVIOUS
<1> QED
  BY <1>1, LastInIs

\* What concatenation does, position by position.
LEMMA Joined ==
    ASSUME NEW C, NEW a \in Seq(C), NEW p \in Seq(C)
    PROVE  /\ Len(a) \in Nat /\ Len(p) \in Nat
           /\ Len(a \o p) = Len(a) + Len(p)
           /\ \A k \in 1..Len(a) : (a \o p)[k] = a[k]
           /\ \A k \in 1..Len(p) : (a \o p)[Len(a) + k] = p[k]
<1>1. Len(a) \in Nat /\ Len(p) \in Nat /\ Len(a \o p) = Len(a) + Len(p)
  OBVIOUS
<1>2. ASSUME NEW k \in 1..Len(a)
      PROVE  (a \o p)[k] = a[k]
  BY <1>1
<1>3. ASSUME NEW k \in 1..Len(p)
      PROVE  (a \o p)[Len(a) + k] = p[k]
  BY <1>1
<1> QED
  BY <1>1, <1>2, <1>3

\* What the text of a repository ends with.
LEMMA PathTextEnd ==
    ASSUME NEW path \in RepoPath
    PROVE  LET name == PathText(path)
               m    == Len(name)
           IN  /\ name \in Seq(Tokens) /\ m \in Nat \ {0}
               /\ \A k \in 1..m : name[k] \notin {":", "@"}
               /\ name[m] \notin {"/"} \cup Ported
               /\ m > 1 => m > 2 /\ name[m - 1] = "/"
<1> DEFINE name == PathText(path)
           n == Len(path)
<1>1. /\ path \in Path /\ n \in Nat \ {0} /\ name \in Seq(Tokens)
      /\ Len(name) = 2 * n - 1
      /\ \A i \in 1..n : name[2 * i - 1] = path[i]
      /\ \A i \in 1..(n - 1) : name[2 * i] = "/"
  BY PathTextShape DEF RepoPath
<1>2. name[2 * n - 1] = path[n] /\ path[n] \in Components /\ path[n] \notin Ported
  BY <1>1 DEF RepoPath, Path
<1>3. path[n] # "/" /\ ":" \notin Tokens /\ "@" \notin Tokens
  BY <1>2, RoutingAssumption DEF Separators, Tokens
<1>4. n > 1 => name[2 * (n - 1)] = "/"
  <2>1. n > 1 => n - 1 \in 1..(n - 1)
    BY <1>1
  <2> HIDE DEF name
  <2> QED
    BY <1>1, <2>1
<1> HIDE DEF name
<1>5. n > 1 => name[Len(name) - 1] = "/" /\ Len(name) > 2
  BY <1>1, <1>4
<1>6. \A k \in 1..Len(name) : name[k] \in Tokens
  BY <1>1
<1> QED
  BY <1>1, <1>2, <1>3, <1>5, <1>6 DEF name

\* The beginning of a text, cut off where something was appended.
LEMMA CutBack ==
    ASSUME NEW V, NEW a \in Seq(V), NEW p \in Seq(V)
    PROVE  Before(a \o p, Len(a) + 1) = a
<1>1. /\ Len(a) \in Nat /\ Len(a \o p) >= Len(a)
      /\ \A k \in 1..Len(a) : (a \o p)[k] = a[k]
      /\ a \o p \in Seq(V)
  BY Joined
<1> DEFINE t == a \o p
<1> HIDE DEF t
<1>2. /\ SubSeq(t, 1, Len(a)) \in Seq(V) /\ Len(SubSeq(t, 1, Len(a))) = Len(a)
      /\ \A k \in 1..Len(a) : SubSeq(t, 1, Len(a))[k] = t[k]
  BY <1>1 DEF t
<1>3. SubSeq(t, 1, Len(a)) = a
  BY <1>1, <1>2 DEF t
<1>4. Before(t, Len(a) + 1) = SubSeq(t, 1, Len(a))
  BY <1>1 DEF Before
<1> QED
  BY <1>3, <1>4 DEF t

\* Without tag and digest nothing is cut off.
LEMMA BareText ==
    ASSUME NEW path \in RepoPath
    PROVE  /\ CutDigest(PathText(path)) = PathText(path)
           /\ CutTag(PathText(path)) = PathText(path)
<1> DEFINE name == PathText(path)
           m == Len(name)
<1>1. /\ name \in Seq(Tokens) /\ m \in Nat \ {0}
      /\ \A k \in 1..m : name[k] \notin {":", "@"}
      /\ name[m] \notin {"/"} \cup Ported
      /\ m > 1 => m > 2 /\ name[m - 1] = "/"
  BY PathTextEnd
<1> HIDE DEF name
<1>2. LastIn(name, {"@"}) = 0
  BY <1>1, LastInNone
<1>3. LastIn(name, {"/"}) = m - 1
  <2>1. m - 1 \in 0..m /\ \A j \in (m - 1 + 1)..m : j = m
    BY <1>1
  <2>2. m - 1 > 0 => name[m - 1] \in {"/"}
    BY <1>1
  <2> QED
    BY <1>1, <2>1, <2>2, LastInIs
<1>4. LastColon(name) \in 0..(m - 1)
  <2>1. PICK k \in 0..m : /\ k > 0 => name[k] \in {":"} \cup Ported
                          /\ \A j \in (k + 1)..m : name[j] \notin {":"} \cup Ported
    BY <1>1, LastInExists
  <2>2. LastColon(name) = k
    BY <1>1, <2>1, LastInIs DEF LastColon
  <2>3. k # m
    BY <1>1, <2>1
  <2> QED
    BY <1>1, <2>1, <2>2, <2>3
<1> QED
  BY <1>2, <1>3, <1>4 DEF CutDigest, CutTag, name

\* A tag is cut off where it begins.
LEMMA TaggedText ==
    ASSUME NEW path \in RepoPath, NEW tag, tag \notin Separators \cup Ported
    PROVE  LET t == PathText(path) \o <<":", tag>>
           IN  CutDigest(t) = t /\ CutTag(t) = PathText(path) /\ t[Len(t)] = tag
<1> DEFINE name == PathText(path)
           m == Len(name)
           V == Tokens \cup {":", tag}
           suffix == <<":", tag>>
           t == name \o suffix
<1>1. /\ name \in Seq(V) /\ m \in Nat \ {0}
      /\ \A k \in 1..m : name[k] \notin {":", "@"}
  BY PathTextEnd
<1>2. suffix \in Seq(V) /\ Len(suffix) = 2 /\ suffix[1] = ":" /\ suffix[2] = tag
  OBVIOUS
<1> HIDE DEF name, suffix, V
<1>3. /\ t \in Seq(V) /\ Len(t) = m + 2
      /\ \A k \in 1..m : t[k] = name[k]
      /\ t[m + 1] = ":" /\ t[m + 2] = tag
  <2>1. /\ Len(t) = m + Len(suffix)
        /\ \A k \in 1..m : t[k] = name[k]
        /\ \A k \in 1..Len(suffix) : t[m + k] = suffix[k]
    <3>1. \A a, p \in Seq(V) :
             /\ Len(a \o p) = Len(a) + Len(p)
             /\ \A k \in 1..Len(a) : (a \o p)[k] = a[k]
             /\ \A k \in 1..Len(p) : (a \o p)[Len(a) + k] = p[k]
      BY Joined
    <3> QED
      BY <1>1, <1>2, <3>1
  <2>2. t \in Seq(V)
    BY <1>1, <1>2
  <2> QED
    BY <1>2, <2>1, <2>2
<1>4. Before(t, m + 1) = name
  BY <1>1, <1>2, CutBack
<1> HIDE DEF t, m
<1>5. tag \notin {"/", ":", "@"} /\ tag \notin Ported
  BY DEF Separators
<1>6. \A k \in 1..Len(t) : k \in 1..m \/ k = m + 1 \/ k = m + 2
  BY <1>1, <1>3
<1>7. LastIn(t, {"@"}) = 0
  <2>1. \A k \in 1..Len(t) : t[k] \notin {"@"}
    BY <1>1, <1>3, <1>5, <1>6
  <2> QED
    BY <1>3, <2>1, LastInNone
<1>8. LastColon(t) = m + 1
  <2>1. m + 1 \in 0..Len(t) /\ t[m + 1] \in {":"} \cup Ported
    BY <1>1, <1>3
  <2>2. \A k \in (m + 1 + 1)..Len(t) : t[k] \notin {":"} \cup Ported
    BY <1>1, <1>3, <1>5
  <2> QED
    BY <1>3, <2>1, <2>2, LastInIs DEF LastColon
<1>9. LastIn(t, {"/"}) < m + 1
  <2>1. PICK k \in 0..Len(t) : /\ k > 0 => t[k] \in {"/"}
                               /\ \A j \in (k + 1)..Len(t) : t[j] \notin {"/"}
    BY <1>3, LastInExists
  <2>2. LastIn(t, {"/"}) = k
    BY <1>3, <2>1, LastInIs
  <2>3. k # m + 1 /\ k # m + 2
    BY <1>1, <1>3, <1>5, <2>1
  <2> QED
    BY <1>1, <1>3, <2>1, <2>2, <2>3
<1> QED
  BY <1>1, <1>3, <1>4, <1>7, <1>8, <1>9 DEF CutDigest, CutTag, t, name, suffix

\* So is a digest.
LEMMA PinnedText ==
    ASSUME NEW path \in RepoPath, NEW d, d # "@"
    PROVE  LET t == PathText(path) \o DigestText(d)
           IN  CutDigest(t) = PathText(path) /\ t[Len(t)] = d
<1> DEFINE name == PathText(path)
           m == Len(name)
           V == Tokens \cup {":", "@", "sha256", d}
           t == name \o DigestText(d)
<1>1. name \in Seq(V) /\ m \in Nat \ {0}
  BY PathTextEnd
<1>2. /\ DigestText(d) \in Seq(V) /\ Len(DigestText(d)) = 4
      /\ DigestText(d)[1] = "@" /\ DigestText(d)[2] = "sha256"
      /\ DigestText(d)[3] = ":" /\ DigestText(d)[4] = d
  BY DEF DigestText
<1> HIDE DEF name, V
<1>3. /\ t \in Seq(V) /\ Len(t) = m + 4
      /\ t[m + 1] = "@" /\ t[m + 2] = "sha256" /\ t[m + 3] = ":" /\ t[m + 4] = d
  <2>1. /\ Len(t) = m + Len(DigestText(d))
        /\ \A k \in 1..Len(DigestText(d)) : t[m + k] = DigestText(d)[k]
    <3>1. \A a, p \in Seq(V) :
             /\ Len(a \o p) = Len(a) + Len(p)
             /\ \A k \in 1..Len(a) : (a \o p)[k] = a[k]
             /\ \A k \in 1..Len(p) : (a \o p)[Len(a) + k] = p[k]
      BY Joined
    <3> QED
      BY <1>1, <1>2, <3>1
  <2>2. t \in Seq(V)
    BY <1>1, <1>2
  <2> QED
    BY <1>2, <2>1, <2>2
<1>4. Before(t, m + 1) = name
  BY <1>1, <1>2, CutBack
<1> HIDE DEF t, m
<1>5. LastIn(t, {"@"}) = m + 1
  <2>1. m + 1 \in 0..Len(t) /\ t[m + 1] \in {"@"}
    BY <1>1, <1>3
  <2>2. \A k \in (m + 1 + 1)..Len(t) : k = m + 2 \/ k = m + 3 \/ k = m + 4
    BY <1>1, <1>3
  <2>3. \A k \in (m + 1 + 1)..Len(t) : t[k] \notin {"@"}
    BY <1>3, <2>2
  <2> QED
    BY <1>3, <2>1, <2>3, LastInIs
<1> QED
  BY <1>1, <1>3, <1>4, <1>5 DEF CutDigest, t, name

-----------------------------------------------------------------------------
(* The requests.                                                            *)

\* What asking for a path comes to: it is a repository of Zot unless its first
\* component is taken for a host.
RequestOf(path, id) ==
    LET name  == PathText(path)
        hosty == Len(name) > 2 /\ name[1] \in Dotted \cup Ported
    IN  [host |-> IF hosty THEN name[1] ELSE ZotHost,
         repo |-> IF hosty THEN SubSeq(name, 3, Len(name)) ELSE name,
         id   |-> id]

\* The path an image has in Zot ends with a component of its own.
LEMMA ZotPathEnds ==
    ASSUME layout \in Layouts, NEW r \in RawImages, Ref!HasMapping(Ref!Parse(r))
    PROVE  /\ Ref!NormalizedPath(r) \in RepoPath
           /\ Ref!ZotPath(Ref!Parse(r)) \in RepoPath
<1> DEFINE own == Ref!NormalizedPath(r)
           C == Components \ Ported
<1>1. r.path \in Seq(C) /\ r.path # <<>> /\ "library" \in C
  BY RoutingAssumption
<1>2. own \in Seq(C) /\ own # <<>>
  <2>1. <<"library">> \in Seq(C)
    BY <1>1
  <2>2. <<"library">> \o r.path \in Seq(C) /\ <<"library">> \o r.path # <<>>
    BY <1>1, <2>1
  <2> QED
    BY <1>1, <2>2 DEF Ref!NormalizedPath
<1> HIDE DEF own
<1>3. own \in Seq(Components) /\ Len(own) \in Nat \ {0} /\ own[Len(own)] \notin Ported
  BY <1>2
<1>4. own \in RepoPath
  BY <1>2, <1>3 DEF RepoPath, Path
<1>5. ASSUME NEW dest \in Seq(Components)
      PROVE  dest \o own \in RepoPath
  <2>1. /\ Len(dest) \in Nat /\ Len(dest \o own) = Len(dest) + Len(own)
        /\ (dest \o own)[Len(dest) + Len(own)] = own[Len(own)]
    BY <1>3, Joined
  <2>2. dest \o own \in Seq(Components) /\ dest \o own # <<>>
    BY <1>3, <2>1
  <2> QED
    BY <1>3, <2>1, <2>2 DEF RepoPath, Path
<1>6. Ref!Parse(r).repository = own
  BY DEF Ref!Parse, own
<1>7. CASE DOMAIN layout = {}
  BY <1>4, <1>6, <1>7 DEF Ref!ZotPath, own
<1>8. CASE DOMAIN layout # {}
  <2>1. layout[Ref!Parse(r).registry] \in Seq(Components)
    BY <1>8, RoutingAssumption DEF Ref!HasMapping
  <2> QED
    BY <1>4, <1>5, <1>6, <1>8, <2>1 DEF Ref!ZotPath, own
<1> QED
  BY <1>7, <1>8

\* What a Zot reference is made of.
LEMMA ZotRefParts ==
    ASSUME NEW r \in RawImages
    PROVE  LET ref == Ref!ZotRef(Ref!Parse(r))
           IN  /\ ref.tag = Ref!TagOf(r)
               /\ ref.repo = Ref!ZotPath(Ref!Parse(r))
               /\ ref.digest = IF ref.tag = None THEN r.digest ELSE None
               /\ ref.tag = None => r.digest # None
               /\ ref.tag \notin Separators \cup Ported
               /\ r.digest # "@"
<1>1. {r.tag, r.digest} \cap (Separators \cup Ported) = {}
  BY RoutingAssumption
<1>2. "latest" \notin Ported \cup {None} /\ "latest" \notin Separators
  BY RoutingAssumption DEF Separators
<1> QED
  BY <1>1, <1>2 DEF Ref!ZotRef, Ref!Parse, Ref!TagOf, Separators

\* An image is asked for at its path, and so are the children of its index.
LEMMA RequestsMeet ==
    ASSUME layout \in Layouts, NEW r \in RawImages, Ref!HasMapping(Ref!Parse(r))
    PROVE  LET ref == Ref!ZotRef(Ref!Parse(r))
           IN  /\ ParseReference(RefText(ref)) =
                    RequestOf(ref.repo, IF ref.tag = None THEN ref.digest ELSE ref.tag)
               /\ ref.tag # None => \A d \in Children :
                    ParseReference(strippedBase(RefText(ref)) \o DigestText(d)) =
                        RequestOf(ref.repo, d)
<1> DEFINE ref == Ref!ZotRef(Ref!Parse(r))
           name == PathText(ref.repo)
<1>1. /\ ref.repo \in RepoPath
      /\ ref.digest = IF ref.tag = None THEN r.digest ELSE None
      /\ ref.tag = None => r.digest # None
      /\ ref.tag \notin Separators \cup Ported
      /\ r.digest # "@"
  BY ZotPathEnds, ZotRefParts
<1> HIDE DEF ref
<1>2. ASSUME NEW t, NEW id, CutTag(CutDigest(t)) = name, t[Len(t)] = id
      PROVE  ParseReference(t) = RequestOf(ref.repo, id)
  BY <1>2 DEF ParseReference, RequestOf
<1>3. CutTag(name) = name
  BY <1>1, BareText
<1>4. CASE ref.tag = None
  <2>1. RefText(ref) = name \o DigestText(ref.digest) /\ ref.digest # "@"
    BY <1>1, <1>4 DEF RefText
  <2> DEFINE t == name \o DigestText(ref.digest)
  <2>2. CutDigest(t) = name /\ t[Len(t)] = ref.digest
    BY <1>1, <2>1, PinnedText
  <2> HIDE DEF name, t
  <2>3. ParseReference(t) = RequestOf(ref.repo, ref.digest)
    BY <1>2, <1>3, <2>2
  <2> QED
    BY <1>4, <2>1, <2>3 DEF ref, t
<1>5. CASE ref.tag # None
  <2>1. RefText(ref) = name \o <<":", ref.tag>>
    BY <1>1, <1>5 DEF RefText
  <2>2. /\ CutTag(CutDigest(RefText(ref))) = name
        /\ RefText(ref)[Len(RefText(ref))] = ref.tag
    <3> DEFINE t == name \o <<":", ref.tag>>
    <3>1. CutDigest(t) = t /\ CutTag(t) = name /\ t[Len(t)] = ref.tag
      BY <1>1, TaggedText
    <3> HIDE DEF name, t
    <3> QED
      BY <2>1, <3>1 DEF t
  <2>3. ASSUME NEW d \in Children
        PROVE  ParseReference(strippedBase(RefText(ref)) \o DigestText(d))
                   = RequestOf(ref.repo, d)
    <3>1. d # "@"
      BY RoutingAssumption DEF Separators
    <3>2. strippedBase(RefText(ref)) = name
      BY <2>2 DEF strippedBase
    <3> DEFINE t == name \o DigestText(d)
    <3>3. CutDigest(t) = name /\ t[Len(t)] = d
      BY <1>1, <3>1, PinnedText
    <3> HIDE DEF name, t
    <3>4. ParseReference(t) = RequestOf(ref.repo, d)
      BY <1>2, <1>3, <3>3
    <3> QED
      BY <3>2, <3>4 DEF t
  <2> QED
    BY <1>2, <1>5, <2>2, <2>3 DEF ref
<1> QED
  BY <1>4, <1>5

-----------------------------------------------------------------------------
(* The steps.                                                               *)

\* What has been asked for is the image at its path, and with it only other
\* manifests of the same path.
RequestsInv ==
    LET ref == Ref!ZotRef(Ref!Parse(raw))
    IN  /\ text = RefText(ref)
        /\ RequestOf(ref.repo, IF ref.tag = None THEN ref.digest ELSE ref.tag)
               \in requests
        /\ \A req \in requests : \E id : req = RequestOf(ref.repo, id)

\* An image is left out only if it is malformed or has no mapping.
RoutingInv ==
    /\ layout \in Layouts /\ raw \in RawImages
    /\ stage \in {"raw", "refused", "skipped", "asked", "children"}
    /\ ~Asked => requests = {}
    /\ stage = "skipped" => ~Ref!HasMapping(Ref!Parse(raw))
    /\ Asked => /\ ~raw.malformed /\ Ref!HasMapping(Ref!Parse(raw))
                /\ RequestsInv

\* The HEAD and the GET of an image ask for its path.
LEMMA AskStep ==
    ASSUME RoutingInv, Ask
    PROVE  RoutingInv'
<1>1. RequestsInv'
  <2>1. /\ text' = RefText(Ref!ZotRef(Ref!Parse(raw)))
        /\ requests' = {ParseReference(text')}
        /\ layout' = layout /\ raw' = raw
    BY DEF Ask
  <2>2. ParseReference(text') =
            RequestOf(Ref!ZotRef(Ref!Parse(raw)).repo,
                      IF Ref!ZotRef(Ref!Parse(raw)).tag = None
                      THEN Ref!ZotRef(Ref!Parse(raw)).digest
                      ELSE Ref!ZotRef(Ref!Parse(raw)).tag)
    BY <2>1, RequestsMeet DEF RoutingInv, Ask
  <2>3. Ref!ZotRef(Ref!Parse(raw))' = Ref!ZotRef(Ref!Parse(raw))
    BY <2>1 DEF Ref!ZotRef, Ref!Parse, Ref!ZotPath
  <2> QED
    BY <2>1, <2>2, <2>3 DEF RequestsInv
<1>2. Ref!HasMapping(Ref!Parse(raw))'
  BY DEF Ask, Ref!HasMapping, Ref!Parse
<1> QED
  BY <1>1, <1>2 DEF RoutingInv, Ask, Asked, Parsed

\* The GET of a child asks for another manifest of that path.
LEMMA AskChildStep ==
    ASSUME RoutingInv, NEW d \in Children, AskChild(d)
    PROVE  RoutingInv'
<1> DEFINE ref == Ref!ZotRef(Ref!Parse(raw))
<1>1. /\ Asked /\ text' = text /\ layout' = layout /\ raw' = raw
      /\ requests' = requests \cup {ParseReference(strippedBase(text) \o DigestText(d))}
      /\ ref.tag # None
  BY DEF AskChild, Asked, Ref!ZotRef, Ref!Parse
<1>2. RequestsInv /\ Ref!HasMapping(Ref!Parse(raw))
  BY <1>1 DEF RoutingInv
<1>3. ParseReference(strippedBase(text) \o DigestText(d)) = RequestOf(ref.repo, d)
  BY <1>1, <1>2, RequestsMeet DEF RoutingInv, RequestsInv
<1>4. ref' = ref
  BY <1>1 DEF Ref!ZotRef, Ref!Parse, Ref!ZotPath
<1>5. RequestsInv'
  BY <1>1, <1>2, <1>3, <1>4 DEF RequestsInv
<1>6. Ref!HasMapping(Ref!Parse(raw))'
  BY <1>1, <1>2 DEF Ref!HasMapping, Ref!Parse
<1> QED
  BY <1>1, <1>5, <1>6 DEF RoutingInv, AskChild, Asked

LEMMA RoutingInvInductive == Spec => []RoutingInv
<1>1. Init => RoutingInv
  BY DEF Init, RoutingInv, Asked
<1>2. RoutingInv /\ [Next]_vars => RoutingInv'
  <2> SUFFICES ASSUME RoutingInv, [Next]_vars
               PROVE  RoutingInv'
    OBVIOUS
  <2>1. CASE Refuse
    BY <2>1 DEF RoutingInv, Refuse, Asked
  <2>2. CASE Skip
    <3>1. ~Ref!HasMapping(Ref!Parse(raw))'
      BY <2>2 DEF Skip, Ref!HasMapping, Ref!Parse
    <3> QED
      BY <2>2, <3>1 DEF RoutingInv, Skip, Parsed, Asked
  <2>3. CASE Ask
    BY <2>3, AskStep
  <2>4. CASE \E d \in Children : AskChild(d)
    BY <2>4, AskChildStep
  <2>5. CASE UNCHANGED vars
    <3>1. /\ Ref!HasMapping(Ref!Parse(raw))' <=> Ref!HasMapping(Ref!Parse(raw))
          /\ Ref!ZotRef(Ref!Parse(raw))' = Ref!ZotRef(Ref!Parse(raw))
      BY <2>5 DEF vars, Ref!HasMapping, Ref!Parse, Ref!ZotRef, Ref!ZotPath
    <3> QED
      BY <2>5, <3>1 DEF RoutingInv, RequestsInv, Asked, vars
  <2> QED
    BY <2>1, <2>2, <2>3, <2>4, <2>5 DEF Next
<1> QED
  BY <1>1, <1>2, PTL DEF Spec

-----------------------------------------------------------------------------

\* The children of an index are asked for where the index was, whichever
\* dots, colons, tags and digests there are (strippedBase and the library).
THEOREM ChildrenStayBeside == Spec => []ChildrenBesideIndex
<1>1. RoutingInv => ChildrenBesideIndex
  <2> SUFFICES ASSUME RoutingInv, NEW r \in requests, NEW q \in requests
               PROVE  r.host = q.host /\ r.repo = q.repo
    BY DEF ChildrenBesideIndex
  <2>1. RequestsInv
    BY DEF RoutingInv
  <2>2. PICK i, j : /\ r = RequestOf(Ref!ZotRef(Ref!Parse(raw)).repo, i)
                    /\ q = RequestOf(Ref!ZotRef(Ref!Parse(raw)).repo, j)
    BY <2>1 DEF RequestsInv
  <2> QED
    BY <2>2 DEF RequestOf
<1> QED
  BY <1>1, RoutingInvInductive, PTL

\* With a map that says what the nodes' mirrors say, a node looks for an image
\* where the warmer has put it (Parse, processImages and the mirrors).
THEOREM NodesFindImages == Spec => []NodeFindsIt
<1>1. RoutingInv => NodeFindsIt
  <2> SUFFICES ASSUME RoutingInv, stage \notin {"raw", "refused"},
                      Aligned, Plain, Shared(raw)
               PROVE  \E r \in requests :
                         /\ r.host = NodeRequest(raw).host
                         /\ r.repo = NodeRequest(raw).repo
                         /\ (raw.tag = None \/ raw.digest = None) =>
                                r.id = NodeRequest(raw).id
    BY DEF NodeFindsIt
  <2> DEFINE ref == Ref!ZotRef(Ref!Parse(raw))
             c == Ref!CanonicalRegistry(Ref!NormalizedHost(raw))
             id == IF ref.tag = None THEN ref.digest ELSE ref.tag
             own == Ref!NormalizedPath(raw)
             name == PathText(ref.repo)
  <2>1. c \in DOMAIN layout /\ Mirrors[Ref!NormalizedHost(raw)] = layout[c]
    BY DEF Shared, HubNames, Aligned, Ref!CanonicalRegistry
  <2>2. Ref!Parse(raw).registry = c /\ Ref!Parse(raw).repository = own
    BY DEF Ref!Parse
  <2>3. Ref!HasMapping(Ref!Parse(raw))
    BY <2>1, <2>2 DEF Ref!HasMapping
  <2>4. Asked /\ RequestsInv
    BY <2>3 DEF RoutingInv, Asked
  <2>5. RequestOf(ref.repo, id) \in requests
    BY <2>4 DEF RequestsInv
  <2>6. ref.repo = layout[c] \o own
    BY <2>1, <2>2 DEF Ref!ZotRef, Ref!ZotPath
  <2>7. name[1] \notin Dotted \cup Ported
    <3>1. layout[c] \in Seq(Components) /\ layout[c] # <<>> /\ own \in Seq(Components)
      BY <2>1, <2>3, ZotPathEnds, RoutingAssumption DEF RoutingInv, RepoPath, Path
    <3>2. /\ ref.repo \in Path
          /\ ref.repo[1] = layout[c][1]
      BY <2>3, <2>6, <3>1, ZotPathEnds DEF RoutingInv, RepoPath, Path, Ref!ZotRef
    <3> HIDE DEF ref
    <3>3. name[2 * 1 - 1] = ref.repo[1]
      BY <3>2, PathTextShape
    <3> HIDE DEF name
    <3> QED
      BY <2>1, <3>2, <3>3 DEF Plain
  <2>8. RequestOf(ref.repo, id) = [host |-> ZotHost, repo |-> name, id |-> id]
    BY <2>7 DEF RequestOf
  <2>9. /\ NodeRequest(raw).host = ZotHost
        /\ NodeRequest(raw).repo = name
    BY <2>1, <2>6 DEF NodeRequest
  <2>10. (raw.tag = None \/ raw.digest = None) => id = NodeRequest(raw).id
    BY ZotRefParts DEF NodeRequest, RoutingInv, Ref!TagOf
  <2> QED
    BY <2>5, <2>8, <2>9, <2>10
<1> QED
  BY <1>1, RoutingInvInductive, PTL

-----------------------------------------------------------------------------
(* Which image a Zot reference stands for.                                  *)

\* A path that was put together in two ways was cut at one prefix, or at two
\* of which one begins with the other.
LEMMA Split ==
    ASSUME NEW C, NEW a \in Seq(C), NEW b \in Seq(C), NEW p \in Seq(C),
           NEW q \in Seq(C), a \o p = b \o q
    PROVE  /\ IsPrefix(a, b) \/ IsPrefix(b, a)
           /\ a = b => p = q
<1>1. /\ \A k \in 1..Len(a) : (a \o p)[k] = a[k]
      /\ \A k \in 1..Len(b) : (a \o p)[k] = b[k]
      /\ Len(a) \in Nat /\ Len(b) \in Nat
  BY Joined
<1>2. IsPrefix(a, b) \/ IsPrefix(b, a)
  <2>1. CASE Len(a) <= Len(b)
    <3>1. SubSeq(a, 1, Len(a)) = SubSeq(b, 1, Len(a))
      BY <1>1, <2>1
    <3> QED
      BY <2>1, <3>1 DEF IsPrefix
  <2>2. CASE Len(b) <= Len(a)
    <3>1. SubSeq(b, 1, Len(b)) = SubSeq(a, 1, Len(b))
      BY <1>1, <2>2
    <3> QED
      BY <2>2, <3>1 DEF IsPrefix
  <2> QED
    BY <1>1, <2>1, <2>2
<1>3. ASSUME a = b
      PROVE  p = q
  <2>1. /\ Len(a \o p) = Len(a) + Len(p) /\ Len(a \o p) = Len(a) + Len(q)
        /\ \A k \in 1..Len(p) : (a \o p)[Len(a) + k] = p[k]
        /\ \A k \in 1..Len(q) : (a \o p)[Len(a) + k] = q[k]
        /\ Len(a) \in Nat /\ Len(p) \in Nat /\ Len(q) \in Nat
    BY <1>3, Joined
  <2>2. Len(p) = Len(q)
    BY <2>1
  <2>3. \A k \in 1..Len(p) : p[k] = q[k]
    BY <2>1, <2>2
  <2> QED
    BY <2>2, <2>3
<1> QED
  BY <1>2, <1>3

\* A path can be read back from its text.
LEMMA PathTextInjective ==
    ASSUME NEW path \in Path, NEW other \in Path,
           \A k \in 1..Len(PathText(path)) : PathText(path)[k] = PathText(other)[k],
           Len(PathText(path)) = Len(PathText(other))
    PROVE  path = other
<1>1. /\ Len(path) \in Nat /\ Len(other) \in Nat
      /\ Len(PathText(path)) = 2 * Len(path) - 1
      /\ Len(PathText(other)) = 2 * Len(other) - 1
      /\ \A i \in 1..Len(path) : PathText(path)[2 * i - 1] = path[i]
      /\ \A i \in 1..Len(other) : PathText(other)[2 * i - 1] = other[i]
  BY PathTextShape
<1>2. Len(path) = Len(other)
  <2>1. 2 * Len(path) - 1 = 2 * Len(other) - 1
    BY <1>1
  <2> QED
    BY <1>1, <2>1
<1>3. ASSUME NEW i \in 1..Len(path)
      PROVE  path[i] = other[i]
  <2>1. 2 * i - 1 \in 1..Len(PathText(path)) /\ i \in 1..Len(other)
    BY <1>1, <1>2
  <2> QED
    BY <1>1, <2>1
<1> QED
  BY <1>2, <1>3 DEF Path

\* What RefText appends to a path.
Suffix(ref) ==
    IF ref.digest = None THEN <<":", ref.tag>> ELSE DigestText(ref.digest)

LEMMA SuffixShape ==
    ASSUME NEW ref, NEW V, {":", "@", "sha256", ref.tag, ref.digest} \subseteq V
    PROVE  /\ Suffix(ref) \in Seq(V)
           /\ ref.digest = None => /\ Len(Suffix(ref)) = 2 /\ Suffix(ref)[1] = ":"
                                  /\ Suffix(ref)[2] = ref.tag
           /\ ref.digest # None => /\ Len(Suffix(ref)) = 4 /\ Suffix(ref)[1] = "@"
                                  /\ Suffix(ref)[4] = ref.digest
<1>1. CASE ref.digest = None
  <2>1. Suffix(ref) = <<":", ref.tag>>
    BY <1>1 DEF Suffix
  <2> QED
    BY <1>1, <2>1
<1>2. CASE ref.digest # None
  <2>1. Suffix(ref) = <<"@", "sha256", ":", ref.digest>>
    BY <1>2 DEF Suffix, DigestText
  <2> QED
    BY <1>2, <2>1
<1> QED
  BY <1>1, <1>2

\* Two references in repo:tag or repo@digest form are the same text only if
\* they are one: neither form can be read as the other.
LEMMA RefTextInjective ==
    ASSUME NEW a, NEW b, a.repo \in RepoPath, b.repo \in RepoPath,
           RefText(a) = RefText(b)
    PROVE  /\ a.repo = b.repo
           /\ a.digest = None <=> b.digest = None
           /\ IF a.digest = None THEN a.tag = b.tag ELSE a.digest = b.digest
<1> DEFINE s == PathText(a.repo)
           t == PathText(b.repo)
           p == Suffix(a)
           q == Suffix(b)
           V == Tokens \cup {":", "@", "sha256", a.tag, a.digest, b.tag, b.digest}
<1>1. /\ s \in Seq(V) /\ t \in Seq(V) /\ Len(s) \in Nat \ {0} /\ Len(t) \in Nat \ {0}
      /\ \A k \in 1..Len(s) : s[k] \notin {":", "@"}
      /\ \A k \in 1..Len(t) : t[k] \notin {":", "@"}
  BY PathTextEnd
<1>2. /\ p \in Seq(V) /\ q \in Seq(V) /\ Len(p) \in {2, 4} /\ Len(q) \in {2, 4}
      /\ p[1] \in {":", "@"} /\ q[1] \in {":", "@"}
      /\ a.digest = None <=> Len(p) = 2
      /\ b.digest = None <=> Len(q) = 2
      /\ p[Len(p)] = IF a.digest = None THEN a.tag ELSE a.digest
      /\ q[Len(q)] = IF b.digest = None THEN b.tag ELSE b.digest
  <2>1. /\ {":", "@", "sha256", a.tag, a.digest} \subseteq V
        /\ {":", "@", "sha256", b.tag, b.digest} \subseteq V
    OBVIOUS
  <2> HIDE DEF V
  <2> QED
    BY <2>1, SuffixShape
<1>3. s \o p = t \o q
  BY DEF RefText, Suffix
<1> HIDE DEF s, t, p, q, V
<1>4. \A x, y \in Seq(V) :
         /\ Len(x \o y) = Len(x) + Len(y)
         /\ \A k \in 1..Len(x) : (x \o y)[k] = x[k]
         /\ \A k \in 1..Len(y) : (x \o y)[Len(x) + k] = y[k]
  BY Joined
<1> DEFINE text1 == s \o p
<1>5. /\ text1[Len(s) + 1] = p[1]
      /\ \A k \in 1..Len(s) : text1[k] = s[k]
      /\ Len(text1) = Len(s) + Len(p)
      /\ text1[Len(s) + Len(p)] = p[Len(p)]
  BY <1>1, <1>2, <1>4
<1>6. /\ text1[Len(t) + 1] = q[1]
      /\ \A k \in 1..Len(t) : text1[k] = t[k]
      /\ Len(text1) = Len(t) + Len(q)
      /\ text1[Len(t) + Len(q)] = q[Len(q)]
  <2>1. text1 = t \o q
    BY <1>3
  <2> HIDE DEF text1
  <2> QED
    BY <1>1, <1>2, <1>4, <2>1
<1> HIDE DEF text1
<1>7. Len(s) = Len(t)
  <2>1. ~(Len(s) < Len(t))
    <3>1. Len(s) < Len(t) => Len(s) + 1 \in 1..Len(t)
      BY <1>1
    <3> QED
      BY <1>1, <1>2, <1>5, <1>6, <3>1
  <2>2. ~(Len(t) < Len(s))
    <3>1. Len(t) < Len(s) => Len(t) + 1 \in 1..Len(s)
      BY <1>1
    <3> QED
      BY <1>1, <1>2, <1>5, <1>6, <3>1
  <2> QED
    BY <1>1, <2>1, <2>2
<1>8. a.repo = b.repo
  <2>1. \A k \in 1..Len(s) : s[k] = t[k]
    BY <1>5, <1>6, <1>7
  <2> QED
    BY <1>7, <2>1, PathTextInjective DEF s, t, RepoPath
<1>9. Len(p) = Len(q) /\ p[Len(p)] = q[Len(q)]
  <2>1. Len(p) = Len(q)
    <3>1. Len(s) + Len(p) = Len(t) + Len(q)
      BY <1>5, <1>6
    <3> QED
      BY <1>1, <1>2, <1>7, <3>1
  <2> QED
    BY <1>5, <1>6, <1>7, <2>1
<1> QED
  BY <1>2, <1>8, <1>9

\* Two images have one path in Zot only if they are of one repository, or the
\* map gives their registries prefixes that overlap (the mapping in
\* processImages).
LEMMA OneRepositoryPerPath ==
    ASSUME layout \in Layouts, DOMAIN layout # {},
           NEW a \in RawImages, NEW b \in RawImages,
           Ref!HasMapping(Ref!Parse(a)), Ref!HasMapping(Ref!Parse(b)),
           Ref!ZotPath(Ref!Parse(a)) = Ref!ZotPath(Ref!Parse(b))
    PROVE  IF Ref!Parse(b).registry = Ref!Parse(a).registry
           THEN Ref!Parse(b).repository = Ref!Parse(a).repository
           ELSE Overlap(Ref!Parse(a).registry, Ref!Parse(b).registry)
<1> DEFINE p == Ref!Parse(a)
           q == Ref!Parse(b)
           s == layout[p.registry]
           t == layout[q.registry]
<1>1. /\ p.registry \in DOMAIN layout /\ q.registry \in DOMAIN layout
      /\ s \o p.repository = t \o q.repository
  BY DEF Ref!HasMapping, Ref!ZotPath
<1>2. /\ s \in Seq(Components) /\ t \in Seq(Components)
      /\ p.repository \in Seq(Components) /\ q.repository \in Seq(Components)
  BY <1>1, ZotPathEnds, RoutingAssumption DEF RepoPath, Path, Ref!Parse
<1> HIDE DEF p, q
<1>3. /\ IsPrefix(s, t) \/ IsPrefix(t, s)
      /\ s = t => p.repository = q.repository
  <2> HIDE DEF s, t
  <2>1. ASSUME NEW x \in Seq(Components), NEW y \in Seq(Components), s \o x = t \o y
        PROVE  (IsPrefix(s, t) \/ IsPrefix(t, s)) /\ (s = t => x = y)
    BY <1>2, <2>1, Split
  <2> QED
    BY <1>1, <1>2, <2>1
<1> QED
  BY <1>3 DEF p, q, Overlap

\* So it is only through overlapping prefixes that a cache hit for one image
\* can stand for another in repository, tag or, where that is all there is,
\* digest, whatever references the workloads contain.
THEOREM CollisionsAreOverlaps == Spec => []CollisionsNeedOverlap
<1>1. RoutingInv => CollisionsNeedOverlap
  <2> SUFFICES ASSUME RoutingInv, Asked, DOMAIN layout # {},
                      NEW other \in RawImages, ~other.malformed,
                      Ref!Parse(other).registry \in DOMAIN layout,
                      RefText(Ref!ZotRef(Ref!Parse(other))) = text
               PROVE  LET p == Ref!Parse(raw)
                          q == Ref!Parse(other)
                      IN  /\ q.tag = p.tag
                          /\ p.isDigestOnly => q.digest = p.digest
                          /\ IF q.registry = p.registry
                             THEN q.repository = p.repository
                             ELSE Overlap(p.registry, q.registry)
    BY DEF CollisionsNeedOverlap
  <2> DEFINE a == Ref!ZotRef(Ref!Parse(raw))
             b == Ref!ZotRef(Ref!Parse(other))
  <2>1. /\ layout \in Layouts /\ raw \in RawImages
        /\ Ref!HasMapping(Ref!Parse(raw)) /\ Ref!HasMapping(Ref!Parse(other))
        /\ RefText(a) = RefText(b)
    BY DEF RoutingInv, RequestsInv, Ref!HasMapping
  <2>2. /\ a.repo = Ref!ZotPath(Ref!Parse(raw)) /\ b.repo = Ref!ZotPath(Ref!Parse(other))
        /\ a.repo \in RepoPath /\ b.repo \in RepoPath
    BY <2>1, ZotPathEnds DEF Ref!ZotRef
  <2>3. /\ a.repo = b.repo
        /\ a.digest = None <=> b.digest = None
        /\ IF a.digest = None THEN a.tag = b.tag ELSE a.digest = b.digest
    <3> HIDE DEF a, b
    <3> QED
      BY <2>1, <2>2, RefTextInjective
  <2>4. IF Ref!Parse(other).registry = Ref!Parse(raw).registry
        THEN Ref!Parse(other).repository = Ref!Parse(raw).repository
        ELSE Overlap(Ref!Parse(raw).registry, Ref!Parse(other).registry)
    BY <2>1, <2>2, <2>3, OneRepositoryPerPath
  <2>5. /\ a.tag = Ref!Parse(raw).tag /\ b.tag = Ref!Parse(other).tag
        /\ a.digest = IF a.tag = None THEN raw.digest ELSE None
        /\ b.digest = IF b.tag = None THEN other.digest ELSE None
        /\ a.tag = None => raw.digest # None
        /\ b.tag = None => other.digest # None
    BY <2>1, ZotRefParts DEF Ref!Parse
  <2>6. /\ Ref!Parse(raw).isDigestOnly <=> a.tag = None
        /\ Ref!Parse(raw).digest = raw.digest
        /\ Ref!Parse(other).digest = other.digest
    BY DEF Ref!Parse, Ref!ZotRef
  <2> HIDE DEF a, b
  <2> QED
    BY <2>3, <2>4, <2>5, <2>6
<1> QED
  BY <1>1, RoutingInvInductive, PTL

=============================================================================
