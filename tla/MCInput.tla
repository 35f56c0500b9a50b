------------------------------- MODULE MCInput -------------------------------
(***************************************************************************)
(* All documents of up to three lines, with the limit after any of them.   *)
(***************************************************************************)
EXTENDS Input

CONSTANTS app, app1, nginx

MCRefs    == {app, app1, nginx}
MCBare    == {nginx}
MCShorter == [r \in MCRefs |-> IF r = app1 THEN {app} ELSE {}]

L(kind, ref) == [kind |-> kind, ref |-> ref]

MCLines == {L("blank", None), L("comment", None), L("separator", None),
            L("image", app1), L("image", nginx), L("flow", app),
            L("name", app1), L("name", nginx), L("other", None), L("word", None)}

Texts == UNION {[1..n -> MCLines] : n \in 0..3}

\* A line that starts with a brace begins with no key, and the lines of JSON,
\* pretty-printed or compact, are no separator, comment or reference alone.
Braces ==
    {t \in Texts : /\ \E k \in DOMAIN t :
                          /\ t[k].kind \in {"flow", "other", "word"}
                          /\ \A n \in 1..k - 1 : t[n].kind = "blank"
                   /\ \A k \in DOMAIN t : t[k].kind \in
                          {"blank", "image", "flow", "other", "word"}}

Doc(brace, json, fits, lines) ==
    [brace |-> brace, json |-> json, fits |-> fits, lines |-> lines]

MCDocuments ==
    UNION {{Doc(FALSE, 0, f, t) : f \in 0..Len(t)} : t \in Texts}
    \cup UNION {{Doc(TRUE, j, f, t) : f \in 0..Len(t),
                     j \in {0} \cup {k \in DOMAIN t : t[k].kind # "blank"}} :
                t \in Braces}

=============================================================================
