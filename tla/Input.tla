-------------------------------- MODULE Input --------------------------------
(***************************************************************************)
(* internal/input: what one argument of zot-warm comes to.  It is standard *)
(* input, a file or an image reference; a document is read up to a limit,  *)
(* classified by its first byte and its line starts, and searched for      *)
(* references by exactly one of three extractors.                          *)
(*                                                                         *)
(* A document is a sequence of lines, and a line is a record of what the   *)
(* two regular expressions and the JSON decoder tell apart, with the       *)
(* reference it carries.                                                   *)
(***************************************************************************)
EXTENDS Naturals, Sequences

CONSTANTS
    Refs,           \* strings that stand where a reference may
    Bare,           \* those without slash, colon and at sign, such as nginx
    Shorter,        \* ref -> the proper prefixes it may be cut down to
    Junk,           \* a whole line of something else that has a slash or colon
    None,           \* no reference
    Documents       \* the documents to read: see Document

\* blank: white space.  comment: begins with #.  separator: begins with ---.
\* image: an image key at the line's start, and the first word of its value.
\* flow: an image key further right.  name: nothing but a reference.  other:
\* other text with a slash or a colon, such as apiVersion: apps/v1.  word: text
\* without.
Kinds == {"blank", "comment", "separator", "image", "flow", "name", "other",
          "word"}
Line  == [kind : Kinds, ref : Refs \cup {None}]

Blank == [kind |-> "blank", ref |-> None]
Word  == [kind |-> "word", ref |-> None]
Other == [kind |-> "other", ref |-> None]

\* brace: the first byte that is not blank is { or [.
\* json: the lines up to the end of the JSON value the document begins with,
\* 0 if there is none; what follows the value on its last line counts as a
\* line of its own, and so does each image key.
\* fits: the lines that end before the limit of 4 MiB.
Document == [brace : BOOLEAN, json : Nat, fits : Nat, lines : Seq(Line)]

ASSUME InputAssumption ==
    /\ Bare \subseteq Refs
    /\ Shorter \in [Refs -> SUBSET Refs]
    /\ Junk \notin Refs /\ None \notin Refs /\ Junk # None
    /\ Documents \subseteq Document
    /\ \A d \in Documents :
           /\ d.fits <= Len(d.lines)
           /\ d.json <= Len(d.lines)
           /\ d.json # 0 => d.brace /\ d.lines[d.json].kind \notin {"blank", "comment"}

VARIABLES
    arg,        \* the argument: "-", "", or a string that may be a path
    force,      \* --file
    file,       \* what the file system has under that string
    doc,        \* the document behind it
    stage,      \* "arg", "open", "read", "parse", "done" or "failed"
    buf,        \* the lines read
    torn,       \* the limit took more than white space off the last of them
    images      \* Result.Images, a sorted list without duplicates

vars == <<arg, force, file, doc, stage, buf, torn, images>>

Init ==
    /\ arg \in {"-", "", "path"}
    /\ force \in BOOLEAN
    /\ file \in IF arg = "path" THEN {"regular", "directory", "absent"}
                               ELSE {"absent"}
    /\ doc \in Documents
    /\ stage = "arg"
    /\ buf = <<>>
    /\ torn = FALSE
    /\ images = {}

Go(from, to) ==
    /\ stage = from
    /\ stage' = to
    /\ UNCHANGED <<arg, force, file, doc>>

Fail(from) == Go(from, "failed") /\ UNCHANGED <<buf, torn, images>>

-----------------------------------------------------------------------------
(* Collect.                                                                 *)

\* What the argument itself is as a reference.
ArgRef == CHOOSE r \in Refs : r \notin Bare

Stdin == arg = "-" /\ Go("arg", "read") /\ UNCHANGED <<buf, torn, images>>

NamesFile == arg # "-" /\ (force \/ file = "regular")

TakeFile == NamesFile /\ Go("arg", "open") /\ UNCHANGED <<buf, torn, images>>

NoInput == arg = "" /\ ~NamesFile /\ Fail("arg")

TakeImage ==
    /\ arg = "path"
    /\ ~NamesFile
    /\ Go("arg", "done")
    /\ images' = {ArgRef}
    /\ UNCHANGED <<buf, torn>>

Open == file = "regular" /\ Go("open", "read") /\ UNCHANGED <<buf, torn, images>>

\* Not there any more, or no permission.
OpenFails == Fail("open")

\* Other processes create and remove files at any time.
FileChanges ==
    /\ arg = "path"
    /\ stage \in {"arg", "open"}
    /\ file' \in {"regular", "absent"} \ {file}
    /\ UNCHANGED <<arg, force, doc, stage, buf, torn, images>>

-----------------------------------------------------------------------------
(* parseReader.                                                             *)

Whole == doc.fits = Len(doc.lines)

\* What may be left of a line that the limit cuts: the line itself, if that is
\* before its comment or white space, or less of it, down to nothing.
CutLine(l) ==
    {l, [l EXCEPT !.ref = None], Blank}
        \cup (IF l.kind \in {"blank", "comment"} THEN {} ELSE {Word})
        \cup (IF l.kind = "flow" THEN {Other} ELSE {})
        \cup (IF l.ref = None THEN {} ELSE {[l EXCEPT !.ref = r] : r \in Shorter[l.ref]})

Read ==
    /\ Go("read", "parse")
    /\ IF Whole THEN buf' = doc.lines /\ torn' = FALSE
       ELSE LET last == doc.lines[doc.fits + 1]
            IN  \E l \in CutLine(last) :
                    /\ buf' = Append(SubSeq(doc.lines, 1, doc.fits), l)
                    /\ torn' \in IF l = last THEN BOOLEAN ELSE {TRUE}
    /\ UNCHANGED images

ReadFails == Fail("read")

Has(lines, kinds) == \E k \in 1..Len(lines) : lines[k].kind \in kinds

\* The first byte that is not blank is among the lines, and it is a brace.
Braced(lines) == doc.brace /\ Has(lines, Kinds \ {"blank"})

\* Mutant of detectMode: the YAML markers are looked for first.
MarkersFirst(lines) ==
    IF Has(lines, {"image", "separator"}) THEN "yaml"
    ELSE IF Braced(lines) THEN "json" ELSE "plain"

detectMode(lines) ==
    IF Braced(lines) THEN "json"
    ELSE IF Has(lines, {"image", "separator"}) THEN "yaml" ELSE "plain"

looksLikeImageRef(s) == s # None /\ s \notin Bare

\* Mutant of Candidate: what is no image key is tried as a line of a list.
GreedyCandidate(mode, l) ==
    CASE l.kind \in {"image", "name"} -> l.ref
      [] l.kind = "flow"              -> IF mode = "json" THEN l.ref ELSE Junk
      [] l.kind = "other"             -> Junk
      [] OTHER                        -> None

\* What one extractor takes from a line.
Candidate(mode, l) ==
    CASE mode = "json"  -> IF l.kind \in {"image", "flow"} THEN l.ref ELSE None
      [] mode = "yaml"  -> IF l.kind = "image" THEN l.ref ELSE None
      [] mode = "plain" -> CASE l.kind = "name" -> l.ref
                             [] l.kind \in {"flow", "other"} -> Junk
                             [] OTHER -> None

Extracted(lines) ==
    {r \in {Candidate(detectMode(lines), lines[k]) : k \in 1..Len(lines)} :
        looksLikeImageRef(r)}

\* Mutant of Decodes: the decoder takes a value's parts as they come.
StreamedDecodes == doc.json # 0

\* The bytes read are one JSON value and white space.
Decodes ==
    /\ doc.json # 0
    /\ doc.json <= doc.fits \/ (doc.json = doc.fits + 1 /\ ~torn)
    /\ \A k \in 1..Len(buf) : k > doc.json => buf[k].kind = "blank"

BadJSON == detectMode(buf) = "json" /\ ~Decodes

\* The scanner's buffer is as long as the limit: a first line that fills it
\* does not end there.
TooLong == detectMode(buf) = "plain" /\ ~Whole /\ doc.fits = 0

ParseFails == (BadJSON \/ TooLong) /\ Fail("parse")

NoneFound == ~BadJSON /\ ~TooLong /\ Extracted(buf) = {} /\ Fail("parse")

Collected ==
    /\ ~BadJSON /\ ~TooLong
    /\ Extracted(buf) # {}
    /\ Go("parse", "done")
    /\ images' = Extracted(buf)
    /\ UNCHANGED <<buf, torn>>

-----------------------------------------------------------------------------

Collect == Stdin \/ TakeFile \/ NoInput \/ TakeImage \/ Open \/ OpenFails

parseReader == Read \/ ReadFails \/ ParseFails \/ NoneFound \/ Collected

Next == Collect \/ parseReader \/ FileChanges

Spec == Init /\ [][Next]_vars

-----------------------------------------------------------------------------

\* The result is that of a document.
Extraction == stage = "done" /\ buf # <<>>

LinesOf(kinds) ==
    {doc.lines[k] : k \in {n \in 1..Len(doc.lines) : doc.lines[n].kind \in kinds}}

\* The references under the document's image keys, and those on lines alone.
Keyed  == {l.ref : l \in LinesOf({"image", "flow"})} \ {None}
Listed == {l.ref : l \in LinesOf({"name"})} \ {None}

\* The beginnings of the reference on the line that the limit cuts.
CutRefs ==
    IF Whole \/ doc.lines[doc.fits + 1].ref = None THEN {}
    ELSE Shorter[doc.lines[doc.fits + 1].ref]

\* What tells a manifest is within the limit: a brace, or a line that is a
\* separator or begins with an image key.
Recognisable ==
    \/ doc.brace
    \/ \E k \in 1..doc.fits : doc.lines[k].kind \in {"image", "separator"}

\* Of a document that can be told for JSON or YAML nothing is taken for an
\* image but the value of an image key, or its beginning where the limit cuts
\* it in YAML: no API version, URL or list entry, wherever the keys and
\* separators stand.  It says nothing of YAML without such a line, which is
\* read as a list (detectMode and the dispatch of parseReader).
OnlyImageKeys ==
    (Extraction /\ Recognisable) =>
        images \subseteq Keyed \cup (IF doc.brace THEN {} ELSE CutRefs)

\* The forms the command documents: JSON, YAML in block style, and a list.
JSONForm ==
    /\ doc.json # 0
    /\ \A k \in 1..Len(doc.lines) : k > doc.json => doc.lines[k].kind = "blank"
BlockYAML == ~doc.brace /\ LinesOf({"image"}) # {} /\ LinesOf({"flow", "name"}) = {}
PlainList == ~doc.brace /\ LinesOf(Kinds \ {"blank", "comment", "name"}) = {}

\* A document in one of these forms that fits into the limit loses none of
\* its references that have a slash or a colon: they are all taken, and one
\* of them is enough for success (parseReader and its extractors).
NoneMissed ==
    (/\ stage \in {"done", "failed"}
     /\ buf # <<>>
     /\ Whole
     /\ JSONForm \/ BlockYAML \/ PlainList) =>
            (IF PlainList THEN Listed ELSE Keyed) \ Bare \subseteq images

\* As long as the limit does not cut off what told the form of a document, it
\* makes up at most one image: all that is taken is what the whole document
\* holds for the same extractor, but for the beginning of the reference that
\* is cut, and of JSON not even that (the LimitReader of parseReader).
CutAtOnePlace ==
    (Extraction /\ ~Whole /\ detectMode(buf) = detectMode(doc.lines)) =>
        images \subseteq
            Extracted(doc.lines) \cup (IF doc.brace THEN {} ELSE CutRefs)

=============================================================================
