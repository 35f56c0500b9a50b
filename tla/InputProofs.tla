----------------------------- MODULE InputProofs -----------------------------
(***************************************************************************)
(* What zot-warm takes from its input, for documents of any length, any    *)
(* limit and any set of references.                                        *)
(***************************************************************************)
EXTENDS Input, TLAPS

\* The buffer holds what the limit lets through of the document.
BufferRead ==
    IF Whole THEN buf = doc.lines
    ELSE \E l \in CutLine(doc.lines[doc.fits + 1]) :
             /\ buf = Append(SubSeq(doc.lines, 1, doc.fits), l)
             /\ ~torn => l = doc.lines[doc.fits + 1]

\* Nothing is taken before the input is read, and what becomes of it is
\* decided by the buffer as it was read, with nothing between.
InputInv ==
    /\ doc \in Documents
    /\ stage \in {"arg", "open", "read"} => buf = <<>>
    /\ buf # <<>> \/ stage = "parse" => BufferRead
    /\ Extraction => ~BadJSON /\ images = Extracted(buf)
    /\ (stage = "failed" /\ buf # <<>>) => BadJSON \/ TooLong \/ Extracted(buf) = {}

-----------------------------------------------------------------------------

\* A step that has not to do with the buffer keeps what is said of it.
LEMMA SameBuffer ==
    ASSUME UNCHANGED <<doc, buf, torn>>
    PROVE  /\ BufferRead' = BufferRead
           /\ BadJSON' = BadJSON
           /\ TooLong' = TooLong
           /\ Extracted(buf)' = Extracted(buf)
BY DEF BufferRead, Whole, BadJSON, TooLong, Decodes, detectMode, Braced, Has,
       Extracted, Candidate

\* The way to the document takes nothing from it.
LEMMA CollectKeeps ==
    ASSUME InputInv, Collect \/ FileChanges \/ UNCHANGED vars
    PROVE  InputInv'
<1> USE SameBuffer DEF InputInv, Extraction
<1>1. CASE Stdin \/ TakeFile \/ Open
  BY <1>1 DEF Stdin, TakeFile, Open, Go
<1>2. CASE NoInput \/ OpenFails
  BY <1>2 DEF NoInput, OpenFails, Fail, Go
<1>3. CASE TakeImage
  BY <1>3 DEF TakeImage, Go
<1>4. CASE FileChanges
  BY <1>4 DEF FileChanges
<1>5. CASE UNCHANGED vars
  BY <1>5 DEF vars
<1> QED
  BY <1>1, <1>2, <1>3, <1>4, <1>5 DEF Collect

\* The reader classifies and extracts from the buffer it has read.
LEMMA ReaderKeeps ==
    ASSUME InputInv, parseReader
    PROVE  InputInv'
<1> USE DEF InputInv, Extraction
<1>1. CASE Read
  <2>1. /\ stage' = "parse" /\ doc' = doc
        /\ IF Whole THEN buf' = doc.lines
           ELSE \E l \in CutLine(doc.lines[doc.fits + 1]) :
                    /\ buf' = Append(SubSeq(doc.lines, 1, doc.fits), l)
                    /\ ~torn' => l = doc.lines[doc.fits + 1]
    BY <1>1 DEF Read, Go
  <2>2. BufferRead'
    BY <2>1 DEF BufferRead, Whole, CutLine
  <2> QED
    BY <2>1, <2>2
<1>2. CASE ReadFails
  BY <1>2, SameBuffer DEF ReadFails, Fail, Go
<1>3. CASE ParseFails \/ NoneFound
  BY <1>3, SameBuffer DEF ParseFails, NoneFound, Fail, Go
<1>4. CASE Collected
  BY <1>4, SameBuffer DEF Collected, Go
<1> QED
  BY <1>1, <1>2, <1>3, <1>4 DEF parseReader

\* The invariant holds in every reachable state.
LEMMA AlwaysRead == Spec => []InputInv
<1>1. Init => InputInv
  BY DEF Init, InputInv, Extraction
<1>2. InputInv /\ [Next]_vars => InputInv'
  BY CollectKeeps, ReaderKeeps DEF Next
<1> QED
  BY <1>1, <1>2, PTL DEF Spec

-----------------------------------------------------------------------------
(* The lines and the extractors.                                            *)

\* A document is a list of lines; JSON begins with a brace.
LEMMA DocumentType ==
    ASSUME doc \in Documents
    PROVE  /\ doc.lines \in Seq(Line)
           /\ Len(doc.lines) \in Nat
           /\ doc.fits \in Nat /\ doc.fits <= Len(doc.lines)
           /\ doc.json \in Nat /\ doc.json <= Len(doc.lines)
           /\ doc.json # 0 =>
                  doc.brace /\ doc.lines[doc.json].kind \notin {"blank", "comment"}
           /\ Junk # None /\ Junk \notin Bare /\ None \notin Bare
BY InputAssumption DEF Document

\* A candidate is the value of an image key or a line that is a reference
\* alone; what else is taken is the whole of a line, and only from a list.
LEMMA Candidates ==
    ASSUME NEW mode \in {"json", "yaml", "plain"}, NEW l,
           looksLikeImageRef(Candidate(mode, l))
    PROVE  \/ /\ Candidate(mode, l) = l.ref /\ l.ref # None
              /\ \/ mode = "json" /\ l.kind \in {"image", "flow"}
                 \/ mode = "yaml" /\ l.kind = "image"
                 \/ mode = "plain" /\ l.kind = "name"
           \/ /\ mode = "plain" /\ Candidate(mode, l) = Junk
              /\ l.kind \in {"flow", "other"}
BY DEF Candidate, looksLikeImageRef

\* The mode is one of three, and follows the markers unless there is a brace.
LEMMA Modes ==
    ASSUME NEW lines
    PROVE  /\ detectMode(lines) \in {"json", "yaml", "plain"}
           /\ detectMode(lines) = "json" <=> Braced(lines)
           /\ detectMode(lines) = "yaml" <=>
                  ~Braced(lines) /\ Has(lines, {"image", "separator"})
BY DEF detectMode

\* Every line that ends before the limit is in the buffer, in its place; the
\* buffer has at most one line more, what is left of the next.
LEMMA BufferLines ==
    ASSUME doc \in Documents, BufferRead
    PROVE  /\ Len(buf) = IF Whole THEN doc.fits ELSE doc.fits + 1
           /\ \A n \in 1..doc.fits : buf[n] = doc.lines[n]
           /\ ~Whole => /\ buf[doc.fits + 1] \in CutLine(doc.lines[doc.fits + 1])
                        /\ ~torn => buf[doc.fits + 1] = doc.lines[doc.fits + 1]
                        /\ doc.fits + 1 \in 1..Len(doc.lines)
                        /\ doc.lines[doc.fits + 1] \in Line
<1>1. CASE Whole
  BY <1>1, DocumentType DEF BufferRead, Whole
<1>2. CASE ~Whole
  <2>1. doc.fits + 1 \in 1..Len(doc.lines)
    BY <1>2, DocumentType DEF Whole
  <2>2. doc.lines[doc.fits + 1] \in Line
    BY <2>1, DocumentType
  <2>3. PICK l \in CutLine(doc.lines[doc.fits + 1]) :
            /\ buf = Append(SubSeq(doc.lines, 1, doc.fits), l)
            /\ ~torn => l = doc.lines[doc.fits + 1]
    BY <1>2 DEF BufferRead
  <2> DEFINE front == SubSeq(doc.lines, 1, doc.fits)
  <2>4. /\ front \in Seq(Line) /\ Len(front) = doc.fits
        /\ \A n \in 1..doc.fits : front[n] = doc.lines[n]
    BY <2>1, DocumentType
  <2>5. /\ Len(buf) = doc.fits + 1 /\ buf[doc.fits + 1] = l
        /\ \A n \in 1..doc.fits : buf[n] = front[n]
    BY <2>3, <2>4, DocumentType
  <2> QED
    BY <1>2, <2>1, <2>2, <2>3, <2>4, <2>5
<1> QED
  BY <1>1, <1>2

\* A line that is cut keeps its kind or loses what made it one, and its
\* reference is whole, shorter or gone.
LEMMA CutKinds ==
    ASSUME NEW last \in Line, NEW l \in CutLine(last)
    PROVE  /\ \/ l.kind = last.kind
              \/ l.kind \in {"blank", "word"}
              \/ l.kind = "other" /\ last.kind = "flow"
           /\ l.ref # None => /\ l.kind = last.kind
                              /\ \/ l.ref = last.ref
                                 \/ last.ref # None /\ l.ref \in Shorter[last.ref]
BY DEF CutLine, Line, Blank, Word, Other

\* An image is taken from a line of the buffer, and that line is one of the
\* document's or the one that was cut.
LEMMA TakenFrom ==
    ASSUME InputInv, Extraction, NEW r \in images
    PROVE  /\ ~BadJSON /\ BufferRead
           /\ looksLikeImageRef(r)
           /\ \E k \in 1..Len(buf) : r = Candidate(detectMode(buf), buf[k])
BY DEF InputInv, Extraction, Extracted

\* A JSON value whose bytes are all there is followed by white space alone, so
\* that every image is taken from a line that is as it was in the document.
LEMMA JSONIsIntact ==
    ASSUME InputInv, Extraction, detectMode(buf) = "json", NEW r \in images
    PROVE  \E k \in 1..Len(doc.lines) :
               /\ r = doc.lines[k].ref /\ r # None
               /\ doc.lines[k].kind \in {"image", "flow"}
<1>1. Decodes
  BY TakenFrom DEF BadJSON
<1>2. PICK k \in 1..Len(buf) :
          r = Candidate(detectMode(buf), buf[k]) /\ looksLikeImageRef(r)
  BY TakenFrom
<1>3. r = buf[k].ref /\ r # None /\ buf[k].kind \in {"image", "flow"}
  BY <1>2, Candidates, Modes
<1>4. k <= doc.json
  BY <1>1, <1>3, DocumentType DEF Decodes, InputInv
<1>5. buf[k] = doc.lines[k] /\ k \in 1..Len(doc.lines)
  BY <1>1, <1>2, <1>4, TakenFrom, BufferLines, DocumentType
     DEF Decodes, InputInv, Whole
<1> QED
  BY <1>3, <1>5

-----------------------------------------------------------------------------

\* Of a document that can be told for JSON or YAML nothing is taken for an
\* image but the value of an image key or, in YAML, its beginning.
THEOREM ManifestsByKeyOnly == Spec => []OnlyImageKeys
<1>1. InputInv => OnlyImageKeys
  <2> SUFFICES ASSUME InputInv, Extraction, Recognisable, NEW r \in images
               PROVE  r \in Keyed \cup (IF doc.brace THEN {} ELSE CutRefs)
    BY DEF OnlyImageKeys
  <2>1. PICK k \in 1..Len(buf) :
            r = Candidate(detectMode(buf), buf[k]) /\ looksLikeImageRef(r)
    BY TakenFrom
  <2>2. CASE detectMode(buf) = "json"
    BY <2>2, JSONIsIntact DEF Keyed, LinesOf
  <2>3. CASE detectMode(buf) = "yaml"
    <3>1. r = buf[k].ref /\ r # None /\ buf[k].kind = "image"
      BY <2>1, <2>3, Candidates
    <3>2. ~doc.brace
      BY <2>1, <2>3, <3>1, Modes DEF Braced, Has, Kinds
    <3>3. CASE k <= doc.fits
      <4>1. buf[k] = doc.lines[k] /\ k \in 1..Len(doc.lines)
        BY <3>3, TakenFrom, BufferLines, DocumentType DEF InputInv
      <4> QED
        BY <3>1, <4>1 DEF Keyed, LinesOf
    <3>4. CASE ~(k <= doc.fits)
      <4>1. ~Whole /\ k = doc.fits + 1
        BY <3>4, TakenFrom, BufferLines, DocumentType DEF InputInv
      <4> DEFINE last == doc.lines[doc.fits + 1]
      <4>2. /\ last.kind = "image" /\ doc.fits + 1 \in 1..Len(doc.lines)
            /\ r = last.ref \/ (last.ref # None /\ r \in Shorter[last.ref])
        BY <3>1, <4>1, TakenFrom, BufferLines, CutKinds DEF InputInv
      <4> QED
        BY <3>1, <3>2, <4>1, <4>2 DEF Keyed, LinesOf, CutRefs
    <3> QED
      BY <3>3, <3>4
  <2>4. CASE detectMode(buf) = "plain"
    <3>1. ~Braced(buf) /\ ~Has(buf, {"image", "separator"})
      BY <2>4, Modes
    <3>2. buf[k].kind \in Kinds \ {"blank"}
      BY <2>1, <2>4, Candidates DEF Kinds
    <3>3. ~doc.brace
      BY <3>1, <3>2 DEF Braced, Has
    <3>4. PICK n \in 1..doc.fits : doc.lines[n].kind \in {"image", "separator"}
      BY <3>3 DEF Recognisable
    <3>5. n \in 1..Len(buf) /\ buf[n] = doc.lines[n]
      BY <3>4, TakenFrom, BufferLines, DocumentType DEF InputInv
    <3> QED
      BY <3>1, <3>4, <3>5 DEF Has
  <2> QED
    BY <2>2, <2>3, <2>4, Modes
<1> QED
  BY <1>1, AlwaysRead, PTL

\* A document in one of the documented forms that fits into the limit loses
\* none of its references, however many there are and whatever stands between.
THEOREM DocumentedFormsComplete == Spec => []NoneMissed
<1>1. InputInv => NoneMissed
  <2> SUFFICES ASSUME InputInv, stage \in {"done", "failed"}, buf # <<>>, Whole,
                      JSONForm \/ BlockYAML \/ PlainList,
                      NEW r \in (IF PlainList THEN Listed ELSE Keyed) \ Bare
               PROVE  r \in images
    BY DEF NoneMissed
  <2>1. buf = doc.lines /\ doc.fits = Len(doc.lines)
    BY DEF InputInv, BufferRead, Whole
  <2>2. PICK k \in 1..Len(doc.lines) :
            /\ r = doc.lines[k].ref /\ r # None
            /\ IF PlainList THEN doc.lines[k].kind = "name"
                            ELSE doc.lines[k].kind \in {"image", "flow"}
    BY DEF Listed, Keyed, LinesOf
  <2>3. ~TooLong
    BY DEF TooLong
  <2>4. Candidate(detectMode(buf), buf[k]) = r /\ ~BadJSON
    <3>1. CASE JSONForm
      <4>1. ~PlainList
        BY <3>1, DocumentType DEF JSONForm, PlainList, InputInv
      <4>2. detectMode(buf) = "json"
        BY <2>1, <2>2, <3>1, <4>1, Modes, DocumentType
           DEF JSONForm, InputInv, Braced, Has, Kinds
      <4>3. Decodes
        BY <2>1, <3>1, DocumentType DEF Decodes, JSONForm, InputInv
      <4> QED
        BY <2>1, <2>2, <4>1, <4>2, <4>3 DEF Candidate, BadJSON
    <3>2. CASE BlockYAML
      <4>1. PICK n \in 1..Len(doc.lines) : doc.lines[n].kind = "image"
        BY <3>2 DEF BlockYAML, LinesOf
      <4>2. doc.lines[n] \in LinesOf(Kinds \ {"blank", "comment", "name"})
        BY <4>1 DEF LinesOf, Kinds
      <4>3. ~PlainList
        BY <4>2 DEF PlainList
      <4>4. doc.lines[k].kind # "flow"
        BY <3>2 DEF BlockYAML, LinesOf
      <4>5. detectMode(buf) = "yaml"
        BY <2>1, <3>2, <4>1, Modes DEF BlockYAML, Has, Braced
      <4> QED
        BY <2>1, <2>2, <4>3, <4>4, <4>5 DEF Candidate, BadJSON
    <3>3. CASE PlainList
      <4>1. \A n \in 1..Len(doc.lines) :
                doc.lines[n].kind \in {"blank", "comment", "name"}
        <5> SUFFICES ASSUME NEW n \in 1..Len(doc.lines)
                     PROVE  doc.lines[n].kind \in {"blank", "comment", "name"}
          OBVIOUS
        <5>1. doc.lines[n] \in Line
          BY DocumentType DEF InputInv
        <5>2. doc.lines[n] \notin LinesOf(Kinds \ {"blank", "comment", "name"})
          BY <3>3 DEF PlainList
        <5> QED
          BY <5>1, <5>2 DEF LinesOf, Line
      <4>2. detectMode(buf) = "plain"
        BY <2>1, <3>3, <4>1, Modes DEF PlainList, Has, Braced
      <4> QED
        BY <2>1, <2>2, <3>3, <4>2 DEF Candidate, BadJSON
    <3> QED
      BY <3>1, <3>2, <3>3
  <2>5. r \in Extracted(buf)
    BY <2>1, <2>2, <2>4 DEF Extracted, looksLikeImageRef
  <2> QED
    BY <2>3, <2>4, <2>5 DEF InputInv, Extraction
<1> QED
  BY <1>1, AlwaysRead, PTL

\* A limit that leaves the document's form in sight makes up one image at
\* most, the beginning of the reference it cuts, and none of JSON.
THEOREM OneCut == Spec => []CutAtOnePlace
<1>1. InputInv => CutAtOnePlace
  <2> DEFINE mode == detectMode(buf)
             last == doc.lines[doc.fits + 1]
  <2> SUFFICES ASSUME InputInv, Extraction, ~Whole, mode = detectMode(doc.lines),
                      NEW r \in images
               PROVE  r \in Extracted(doc.lines)
                              \cup (IF doc.brace THEN {} ELSE CutRefs)
    BY DEF CutAtOnePlace
  <2>1. PICK k \in 1..Len(buf) : r = Candidate(mode, buf[k])
    BY TakenFrom
  <2>2. looksLikeImageRef(r)
    BY TakenFrom
  <2>3. mode \in {"json", "yaml", "plain"}
    BY Modes
  <2>4. ASSUME NEW n \in 1..Len(doc.lines), r = Candidate(mode, doc.lines[n])
        PROVE  r \in Extracted(doc.lines)
    BY <2>2, <2>4 DEF Extracted
  <2>5. CASE mode = "json"
    <3>1. PICK n \in 1..Len(doc.lines) :
              r = doc.lines[n].ref /\ doc.lines[n].kind \in {"image", "flow"}
      BY <2>5, JSONIsIntact
    <3> QED
      BY <2>4, <2>5, <3>1 DEF Candidate
  <2>6. CASE mode # "json" /\ k <= doc.fits
    <3>1. buf[k] = doc.lines[k] /\ k \in 1..Len(doc.lines)
      BY <2>6, TakenFrom, BufferLines, DocumentType DEF InputInv
    <3> QED
      BY <2>1, <2>4, <3>1
  <2>7. CASE mode # "json" /\ ~(k <= doc.fits)
    <3>1. k = doc.fits + 1
      BY <2>7, TakenFrom, BufferLines, DocumentType DEF InputInv
    <3>2. /\ buf[k] \in CutLine(last) /\ last \in Line
          /\ doc.fits + 1 \in 1..Len(doc.lines)
      BY <3>1, TakenFrom, BufferLines DEF InputInv
    <3>3. CASE Candidate(mode, buf[k]) = Junk /\ mode = "plain"
               /\ buf[k].kind \in {"flow", "other"}
      <4>1. last.kind \in {"flow", "other"}
        BY <3>2, <3>3, CutKinds
      <4>2. Candidate(mode, last) = Junk
        BY <3>3, <4>1 DEF Candidate
      <4> QED
        BY <2>1, <2>4, <3>2, <3>3, <4>2
    <3>4. CASE /\ r = buf[k].ref /\ r # None
               /\ \/ mode = "yaml" /\ buf[k].kind = "image"
                  \/ mode = "plain" /\ buf[k].kind = "name"
      <4>1. /\ last.kind = buf[k].kind
            /\ r = last.ref \/ (last.ref # None /\ r \in Shorter[last.ref])
        BY <3>2, <3>4, CutKinds
      <4>2. CASE r = last.ref
        <5>1. Candidate(mode, last) = r
          BY <3>4, <4>1, <4>2 DEF Candidate
        <5> QED
          BY <2>4, <3>2, <5>1
      <4>3. CASE last.ref # None /\ r \in Shorter[last.ref]
        <5>1. ~doc.brace
          BY <2>1, <2>7, <3>4, Modes DEF Braced, Has, Kinds
        <5> QED
          BY <4>3, <5>1 DEF CutRefs
      <4> QED
        BY <4>1, <4>2, <4>3
    <3> QED
      BY <2>1, <2>2, <2>3, <2>7, <3>3, <3>4, Candidates
  <2> QED
    BY <2>5, <2>6, <2>7
<1> QED
  BY <1>1, AlwaysRead, PTL

=============================================================================
