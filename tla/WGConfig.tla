------------------------------ MODULE WGConfig ------------------------------
(***************************************************************************)
(* The text of wg0.conf (internal/wg/config.go) and its life in the config *)
(* page: GET shows it with the keys redacted, the user edits the text area *)
(* and POST puts the keys back (internal/server/api_wg.go).                *)
(*                                                                         *)
(* A text is a sequence of lines: section headers, directives, comments    *)
(* (their marker, "#" or ";", is their key), lines without "=" and lines   *)
(* of 64 KiB or more, at which bufio.Scanner stops.  Blank lines, white    *)
(* space and letter case are left out.                                     *)
(***************************************************************************)
EXTENDS Naturals, Sequences, FiniteSets

CONSTANTS
  Keys,         \* base64 of 32 bytes
  Values,       \* other values of directives
  Accepts,      \* Directives -> the values validateDirective takes
  Redacted,     \* RedactedValue, "***"
  Empty,        \* no value
  Users,        \* browsers with the config page open
  NoFile,       \* wg0.conf does not exist
  Placed,       \* texts that wg0.conf may be provisioned with
  Pastes,       \* texts a user may paste over the text area
  Lines,        \* lines a user may insert
  MaxEdits      \* bound on edits in a behaviour

Interface == "interface"
Peer      == "peer"

\* A directive is named by its section and its key.
PrivateKey   == <<Interface, "privatekey">>
Address      == <<Interface, "address">>
MTU          == <<Interface, "mtu">>
ListenPort   == <<Interface, "listenport">>
FwMark       == <<Interface, "fwmark">>
PublicKey    == <<Peer, "publickey">>
PresharedKey == <<Peer, "presharedkey">>
Endpoint     == <<Peer, "endpoint">>
AllowedIPs   == <<Peer, "allowedips">>
Keepalive    == <<Peer, "persistentkeepalive">>

isSensitiveDirective == {PrivateKey, PublicKey, PresharedKey}
isInterfaceMetadataDirective == {Address, MTU}
metaDirectives == {PrivateKey, Address, MTU, PublicKey, PresharedKey,
                   Endpoint, AllowedIPs, Keepalive}
Directives == metaDirectives \cup {ListenPort, FwMark}

Kinds == {"header", "directive", "comment", "junk", "long"}

\* The value of a directive.  Of the text of any other line only a key or a
\* placeholder after a "=" is told apart: that is then its val, else Empty.
\* Every key holds a "=", so a line without one holds no key.
Val  == Keys \cup Values \cup {Redacted, Empty}
Line == {l \in [kind : Kinds, key : STRING, val : Val] :
           /\ l.kind = "comment" => l.key \in {"#", ";"}
           /\ l.kind \in {"comment", "long"} => l.val \in Keys \cup {Redacted, Empty}
           /\ l.kind \in {"header", "junk"} => l.val = Empty}
Text == Seq(Line)

ASSUME TextAssumption ==
  /\ Accepts \in [Directives -> SUBSET (Keys \cup Values)]
  /\ \A d \in Directives : IF d \in isSensitiveDirective THEN Accepts[d] = Keys
                                                         ELSE Accepts[d] \subseteq Values
  /\ Redacted # Empty /\ {Redacted, Empty} \cap (Keys \cup Values) = {}
  /\ Keys \cap Values = {}
  /\ Placed \subseteq Text /\ Pastes \subseteq Text /\ Lines \subseteq Line
  /\ NoFile \notin Text
  /\ MaxEdits \in Nat

----------------------------------------------------------------------------
(* Reading a text *)

\* How many lines bufio.Scanner returns.
scanned(t) ==
  CHOOSE n \in 0..Len(t) : /\ \A i \in 1..n : t[i].kind # "long"
                           /\ n = Len(t) \/ t[n + 1].kind = "long"

\* The section that line i is in.
section(t, i) ==
  LET headers == {j \in 1..(i - 1) : t[j].kind = "header"}
  IN  IF headers = {} THEN ""
      ELSE t[CHOOSE j \in headers : \A k \in headers : k <= j].key

directive(t, i) == <<section(t, i), t[i].key>>

\* Lines of t that are directive d, up to line n.
OccurrencesOf(t, d, n) ==
  {i \in 1..n : t[i].kind = "directive" /\ directive(t, i) = d}

\* Mutant of occurrence: directives are counted within their section.
occurrenceInSection(t, i) ==
  Cardinality({j \in OccurrencesOf(t, directive(t, i), i) :
                 \A k \in j..i : t[k].kind # "header"})

\* How many times line i's directive has occurred, line i included.
occurrence(t, i) == Cardinality(OccurrencesOf(t, directive(t, i), i))

\* The value of each directive that ParseConfig keeps: the last one given.
ParseConfig(t) ==
  [d \in metaDirectives |->
     LET I == OccurrencesOf(t, d, scanned(t))
     IN  IF I = {} THEN Empty ELSE t[CHOOSE i \in I : \A j \in I : j <= i].val]

\* Mutant of validateDirective: a directive of any section is taken.
validateAnySection(d, v) == \E e \in Directives : e[2] = d[2] /\ v \in Accepts[e]

validateDirective(d, v) == d \in Directives /\ v \in Accepts[d]

\* Mutant of ValidateConfig: the error of the scanner is not looked at.
ValidateScanned(t) ==
  /\ ParseConfig(t)[PrivateKey] # Empty
  /\ ParseConfig(t)[PublicKey] # Empty
  /\ \A i \in 1..scanned(t) :
       /\ t[i].kind = "header" => t[i].key \in {Interface, Peer}
       /\ t[i].kind = "directive" => validateDirective(directive(t, i), t[i].val)
       /\ t[i].kind # "junk"

\* Comments are passed over, whichever marker they have.
ValidateConfig(t) ==
  /\ ParseConfig(t)[PrivateKey] # Empty
  /\ ParseConfig(t)[PublicKey] # Empty
  /\ \A i \in 1..scanned(t) :
       /\ t[i].kind = "header" => t[i].key \in {Interface, Peer}
       /\ t[i].kind = "directive" => validateDirective(directive(t, i), t[i].val)
       /\ t[i].kind # "junk"
  /\ scanned(t) = Len(t)      \* scanner.Err()

\* An operator provisions the container with a config that would also save.
ASSUME PlacedAssumption == \A t \in Placed : ValidateConfig(t)

----------------------------------------------------------------------------
(* Rewriting a text *)

\* The lines that are scanned, those of directives with the values replaced.
transformConfig(t, replaced) ==
  [i \in 1..scanned(t) |->
     IF t[i].kind = "directive" THEN [t[i] EXCEPT !.val = replaced[i]] ELSE t[i]]

redact(d, v) == IF d \in isSensitiveDirective /\ v # Empty THEN Redacted ELSE v

RedactConfig(t) ==
  transformConfig(t, [i \in DOMAIN t |-> redact(directive(t, i), t[i].val)])

\* sensitiveValues: the n-th value of directive d, Empty if there is none.
sensitiveValues(t, d, n) ==
  LET I == {i \in OccurrencesOf(t, d, scanned(t)) : occurrence(t, i) = n}
  IN  IF I = {} THEN Empty ELSE t[CHOOSE i \in I : TRUE].val

\* Mutant of restore: an existing key is put over a new one too.
restoreAlways(existing, d, v, n) ==
  IF d \in isSensitiveDirective /\ sensitiveValues(existing, d, n) # Empty
  THEN sensitiveValues(existing, d, n)
  ELSE v

\* Mutant of restore: a placeholder too many gets the first key of its kind.
restoreOrFirst(existing, d, v, n) ==
  IF d \in isSensitiveDirective /\ v = Redacted /\ sensitiveValues(existing, d, 1) # Empty
  THEN sensitiveValues(existing, d, IF sensitiveValues(existing, d, n) # Empty THEN n ELSE 1)
  ELSE v

restore(existing, d, v, n) ==
  IF /\ d \in isSensitiveDirective /\ v = Redacted
     /\ sensitiveValues(existing, d, n) # Empty
  THEN sensitiveValues(existing, d, n)
  ELSE v

\* It fails (see Savable) if the merged text still Mentions the placeholder.
MergeRedactedConfig(existing, submitted) ==
  transformConfig(submitted,
    [i \in DOMAIN submitted |->
       restore(existing, directive(submitted, i), submitted[i].val,
               occurrence(submitted, i))])

Mentions(t) == \E i \in DOMAIN t : t[i].val = Redacted

\* The lines K of t, in their order.
Extract(t, K) ==
  [n \in 1..Cardinality(K) |->
     t[CHOOSE i \in K : Cardinality({j \in K : j <= i}) = n]]

\* Mutant of SetconfConfig: the MTU goes to `wg setconf`.
SetconfKeepsMTU(t) ==
  Extract(t, (1..scanned(t)) \ OccurrencesOf(t, Address, scanned(t)))

\* The text that `wg setconf` is given: without Address and MTU, which it
\* does not know.  Comments of either kind are left in.
SetconfConfig(t) ==
  Extract(t, {i \in 1..scanned(t) :
                t[i].kind = "directive" => directive(t, i) \notin isInterfaceMetadataDirective})

\* What wg's own parser takes line i for something it knows: its comments begin
\* with "#" only.
WgReads(t, i) ==
  CASE t[i].kind = "header"    -> t[i].key \in {Interface, Peer}
    [] t[i].kind = "directive" -> directive(t, i) \in Directives \ {Address, MTU}
    [] t[i].kind = "comment"   -> t[i].key = "#"
    [] OTHER                   -> FALSE

----------------------------------------------------------------------------
(* The config page *)

VARIABLES
  file,      \* wg0.conf
  form,      \* text area of each user
  shown,     \* the config in the last answer each user got
  meant,     \* history: the form with the key that each placeholder stood for
  base,      \* history: wg0.conf when the form was loaded
  shifted,   \* history: the form's placeholders no longer line up with base
  edits      \* history: edits so far

pageVars == <<form, shown, meant, base, shifted>>
vars == <<file, pageVars, edits>>

TypeOK ==
  /\ file \in Text \cup {NoFile}
  /\ form \in [Users -> Text]
  /\ shown \in [Users -> Text]
  /\ meant \in [Users -> Text]
  /\ base \in [Users -> Text \cup {NoFile}]
  /\ shifted \in [Users -> BOOLEAN]
  /\ edits \in 0..MaxEdits

Init ==
  /\ file \in {NoFile} \cup Placed
  /\ form = [u \in Users |-> <<>>]
  /\ shown = [u \in Users |-> <<>>]
  /\ meant = [u \in Users |-> <<>>]
  /\ base = [u \in Users |-> NoFile]
  /\ shifted = [u \in Users |-> FALSE]
  /\ edits = 0

Contents == IF file = NoFile THEN <<>> ELSE file

\* An answer with the config t; the page puts it into the text area.
Answer(u, t) ==
  /\ form' = [form EXCEPT ![u] = RedactConfig(t)]
  /\ shown' = [shown EXCEPT ![u] = RedactConfig(t)]
  /\ meant' = [meant EXCEPT ![u] = t]
  /\ base' = [base EXCEPT ![u] = file']
  /\ shifted' = [shifted EXCEPT ![u] = FALSE]

\* Mutant of getWGConfig: without a file the answer has no config.
getWGConfigOmits(u) ==
  /\ UNCHANGED <<file, form, meant, base, shifted, edits>>
  /\ shown' = [shown EXCEPT ![u] = IF file = NoFile THEN NoFile ELSE RedactConfig(file)]

getWGConfig(u) ==
  /\ UNCHANGED <<file, edits>>
  /\ Answer(u, Contents)

\* What the POST of form f over the contents would save, if it is accepted.
Merged(f) == IF Contents = <<>> THEN f ELSE MergeRedactedConfig(Contents, f)

\* MergeRedactedConfig's own check, which only runs over existing contents.
Savable(t) ==
  /\ Contents # <<>> => ~Mentions(t)
  /\ ValidateConfig(t)

\* A form that is not savable gets an error, and the page stays as it is.
postWGConfig(u) ==
  /\ UNCHANGED edits
  /\ file' = Merged(form[u])
  /\ Savable(file')
  /\ Answer(u, file')

----------------------------------------------------------------------------
(* The user, and the operator of the container *)

\* Lines i to j of t hold a key with another of its kind further down.
KeyAbove(t, i, j) ==
  \E k \in i..j, l \in (j + 1)..Len(t) :
    /\ t[k].kind = "directive" /\ t[l].kind = "directive"
    /\ t[k].key = t[l].key
    /\ t[k].key \in {d[2] : d \in isSensitiveDirective}

Edit(u, f, m, shifts) ==
  /\ edits < MaxEdits
  /\ edits' = edits + 1
  /\ form' = [form EXCEPT ![u] = f]
  /\ meant' = [meant EXCEPT ![u] = m]
  /\ shifted' = [shifted EXCEPT ![u] = @ \/ shifts]
  /\ UNCHANGED <<file, shown, base>>

Without(t, i, j) == SubSeq(t, 1, i - 1) \o SubSeq(t, j + 1, Len(t))
With(t, i, l) == SubSeq(t, 1, i - 1) \o <<l>> \o SubSeq(t, i, Len(t))

Delete(u, i, j) ==
  Edit(u, Without(form[u], i, j), Without(meant[u], i, j), KeyAbove(form[u], i, j))

DeleteLine(u, i) == Delete(u, i, i)

\* A header and the lines up to the next one.
DeleteSection(u, i) ==
  /\ form[u][i].kind = "header"
  /\ \E j \in i..Len(form[u]) :
       /\ \A k \in (i + 1)..j : form[u][k].kind # "header"
       /\ j < Len(form[u]) => form[u][j + 1].kind = "header"
       /\ Delete(u, i, j)

\* A placeholder that the user types stands for no key of a loaded text.
InsertLine(u, i, l) ==
  LET f == With(form[u], i, l)
  IN  Edit(u, f, With(meant[u], i, l),
           KeyAbove(f, i, i) \/ (l.kind = "directive" /\ l.val = Redacted))

SetValue(u, i, v) ==
  /\ form[u][i].kind = "directive"
  /\ Edit(u, [form[u] EXCEPT ![i].val = v], [meant[u] EXCEPT ![i].val = v], FALSE)

\* Placeholders of a pasted text stand for keys of no loaded one.
Paste(u, t) == Edit(u, t, t, Mentions(t))

Next ==
  \E u \in Users :
    \/ getWGConfig(u)
    \/ postWGConfig(u)
    \/ \E i \in DOMAIN form[u] : DeleteLine(u, i) \/ DeleteSection(u, i)
    \/ \E i \in 1..(Len(form[u]) + 1), l \in Lines : InsertLine(u, i, l)
    \/ \E i \in DOMAIN form[u], v \in Keys \cup Values : SetValue(u, i, v)
    \/ \E t \in Pastes : Paste(u, t)

Spec == Init /\ [][Next]_vars

----------------------------------------------------------------------------
(* Properties *)

\* api_wg.go:33, 93, config.go:67-74, 94-130: a key in an answer is one in a
\* comment, which RedactConfig passes through (config.go:140-142); a key that is in
\* use is never shown, whatever was posted before.  Redaction goes by section and
\* name, so this rests on ValidateConfig keeping a key under any other out.
OnlyCommentsShowKeys ==
  \A u \in Users : \A i \in DOMAIN shown[u] :
    shown[u][i].val \in Keys => shown[u][i].kind = "comment"

\* config.go:67-92: the page's own text, posted back unedited, is accepted and
\* leaves wg0.conf as it is, for any stored config without a comment that
\* mentions the placeholder: restoring undoes redacting, key by key.
RoundTrip ==
  file # NoFile /\ ~Mentions(file)
    => LET t == Merged(RedactConfig(file)) IN Savable(t) /\ t = file

\* config.go:94-130, 203-224: of a saved config `wg setconf` gets every directive
\* but Address and MTU, and reads every line it gets except the ";" comments, which
\* ValidateConfig takes (config.go:103) and wg does not.  So a save that is accepted
\* never fails Start for another reason, and no directive is lost on the way.
SetconfUnderstood ==
  file # NoFile =>
    LET t == SetconfConfig(file)
        count(x) == Cardinality({i \in DOMAIN x : x[i].kind = "directive"})
    IN  /\ \A i \in DOMAIN t : WgReads(t, i) \/ (t[i].kind = "comment" /\ t[i].key = ";")
        /\ count(file) - count(t) =
             Cardinality(OccurrencesOf(file, Address, Len(file)) \cup
                         OccurrencesOf(file, MTU, Len(file)))

\* u saves a form that was loaded from the file as it is.
Saves(u) == base[u] = file /\ postWGConfig(u)

HasLong(t) == \E i \in DOMAIN t : t[i].kind = "long"

\* config.go:76-92, api_wg.go:69-76: a save of a form whose key lines were only
\* replaced, or removed and added below the last of their kind, stores what the
\* user saw and typed, with every untouched key as it was when the form was
\* loaded (unless another save came between, or a line is too long to read).
EditKeepsKeys ==
  [][\A u \in Users : ~shifted[u] /\ ~HasLong(form[u]) /\ Saves(u)
       => file' = meant[u]]_vars

\* The lines I of t that are directive d with value v.
LikeLines(t, I, d, v) ==
  {i \in I : t[i].kind = "directive" /\ directive(t, i) = d /\ t[i].val = v}

\* The save gives each line that it changes a stored value of the same directive,
\* and no more lines of them than there are stored.
RestoresInRole(f) ==
  LET restored == {i \in DOMAIN file' : file'[i].val # f[i].val}
  IN  \A i \in restored :
        LET like(t, I) == LikeLines(t, I, directive(file', i), file'[i].val)
        IN  /\ f[i].val = Redacted
            /\ like(Contents, DOMAIN Contents) # {}
            /\ Cardinality(like(file', restored))
                 <= Cardinality(like(Contents, DOMAIN Contents))

\* config.go:76-92, 163-203: whatever was shifted, pasted or saved in between, a
\* save writes over placeholders only, gives each a key of its own directive in
\* wg0.conf as it is then (a private key never becomes a peer's), and hands no
\* stored key out twice.
KeysStayInRole == [][\A u \in Users : postWGConfig(u) => RestoresInRole(form[u])]_vars

\* config_test.go:137-167, TestMergeRedactedConfigPreservesExistingKeys: a key
\* left redacted in the form is the key that is saved in its place.
PreservesExistingKeys ==
  [][\A u \in Users : ~Mentions(meant[u]) /\ ~HasLong(form[u]) /\ Saves(u)
       => file' = meant[u]]_vars

\* config_test.go:158-167: what was submitted is in the merged config ("merged
\* config missing" otherwise), so an acknowledged save keeps every line.
SavedInFull ==
  [][\A u \in Users : Saves(u) => Len(file') = Len(form[u])]_vars

\* README.md:115-118: the endpoint of a peer is pinned to the underlay; routes.apply
\* pins the endpoint that ParseConfig returns, so it should be every peer's.
EveryEndpointPinned ==
  file # NoFile =>
    \A i \in OccurrencesOf(file, Endpoint, Len(file)) :
      file[i].val = ParseConfig(file)[Endpoint]
==============================================================================
