-------------------------------- MODULE Text --------------------------------
(***************************************************************************)
(* The conversions of src/ccode/string.c and safedir of src/ccode/file.c,  *)
(* on texts that grow by one character at a time.  A text is a sequence of *)
(* characters.  The web server's directory listing makes links of names    *)
(* with url_encode and finds the file again with safedir and url_decode;   *)
(* p_realpath cleans paths with safedir; the yaml parser takes the indent  *)
(* off an area with trim.                                                  *)
(***************************************************************************)
EXTENDS Integers, Sequences, FiniteSets

Strings == INSTANCE SequencesExt

CONSTANTS
  Alphabet,    \* for each use of a text the characters it is made of
  MaxText      \* bounds on their lengths

ASSUME TextAssumption ==
  /\ DOMAIN Alphabet \subseteq {"name", "path", "area"}
  /\ \A u \in DOMAIN Alphabet : MaxText[u] \in Nat
  /\ "name" \in DOMAIN Alphabet =>
       Alphabet["name"] \subseteq {"A", "a", "2", "5", ".", "/", "%", "*"}

VARIABLES
  use,         \* "name", "path" or "area"
  text

textVars == <<use, text>>

TextInit == use \in DOMAIN Alphabet /\ text = <<>>
Type(c) ==
  /\ Len(text) < MaxText[use]
  /\ text' = Append(text, c)
  /\ UNCHANGED use
TextNext == \E c \in Alphabet[use] : Type(c)
TextSpec == TextInit /\ [][TextNext]_textVars

----------------------------------------------------------------------------
(* string.c.  A few characters stand for each kind; those that are escaped *)
(* have a code.                                                            *)
Capital == {"A"}
OtherKept == {"a", "2", "5", "."}
Code == [c \in {"/", "%", "*"} |->
           CASE c = "/" -> <<"2", "F">> [] c = "%" -> <<"2", "5">> [] c = "*" -> <<"2", "A">>]
isHexDigitDecimal(c) == c \in {"2", "5"}
isHexDigit(c) == c \in {"A", "F", "a", "2", "5"}
Decoded(code) == IF \E c \in DOMAIN Code : Code[c] = code
                 THEN CHOOSE c \in DOMAIN Code : Code[c] = code ELSE "other"

isalnum_c(c) == c \in Capital \cup OtherKept
Escape(c) == <<"%">> \o Code[c]
url_encode(s) ==
  Strings!FlattenSeq([i \in DOMAIN s |-> IF isalnum_c(s[i]) THEN <<s[i]>> ELSE Escape(s[i])])

(* ! binds to the first alternative of the macro only, so every character  *)
(* but a capital counts twice.                                             *)
EncodeRoom(s) == 1 + Len(s) + Cardinality({i \in DOMAIN s : s[i] \notin Capital})

(* A round of the loop; a % that no two digits follow is dropped.          *)
Decode(s, at) ==
  LET c == s[at.i]
      digits == at.i + 2 <= Len(s) /\ isHexDigit(s[at.i + 1]) /\ isHexDigit(s[at.i + 2])
  IN  IF at.i > Len(s) THEN at
      ELSE CASE c # "%" -> [i |-> at.i + 1, output |-> Append(at.output, c)]
             [] c = "%" /\ digits ->
                  [i |-> at.i + 3,
                   output |-> Append(at.output, Decoded(SubSeq(s, at.i + 1, at.i + 2)))]
             [] OTHER -> [at EXCEPT !.i = @ + 1]
url_decode(s) ==
  LET after[n \in 0 .. Len(s)] ==
        IF n = 0 THEN [i |-> 1, output |-> <<>>] ELSE Decode(s, after[n - 1])
  IN  after[Len(s)].output

(* How many c the text starts with.                                        *)
Leading(s, c) ==
  CHOOSE n \in 0 .. Len(s) : (\A i \in 1 .. n : s[i] = c) /\ (n = Len(s) \/ s[n + 1] # c)
count_tab(s) == Leading(s, " ")

(* The copy starts behind the first line's indent and skips as many        *)
(* characters after every newline, whatever they are.                      *)
NextFromLate(s, j) == IF s[j] = "\n" THEN j + count_tab(s) + 2 ELSE j + 1
NextFrom(s, j) == IF s[j] = "\n" THEN j + count_tab(s) + 1 ELSE j + 1
Copy(s, at) ==
  IF at.j > Len(s) THEN at ELSE [j |-> NextFrom(s, at.j), str |-> Append(at.str, s[at.j])]
trim(s) ==
  LET after[n \in 0 .. Len(s)] ==
        IF n = 0 THEN [j |-> count_tab(s) + 1, str |-> <<>>] ELSE Copy(s, after[n - 1])
  IN  after[Len(s)].str

startswith(s, f) == Strings!IsPrefix(f, s)
Occurs(f, s) == f \in Strings!SubSeqs(s)

----------------------------------------------------------------------------
(* safedir.  Its loops replace the first occurrence until there is none,   *)
(* and each time the text gets shorter.                                    *)
(* The copy has no terminator: what follows it in memory, up to the first  *)
(* zero, takes part in the replacements.                                   *)
ReplaceOnce(s, f, by) == Strings!ReplaceFirstSubSeq(by, f, s)
ReplaceAll(s, f, by) ==
  LET after[n \in 0 .. Len(s)] == IF n = 0 THEN s ELSE ReplaceOnce(after[n - 1], f, by)
  IN  after[Len(s)]

Dots == <<".", ".">>
Slashes == <<"/", "/">>
Printable(c) == IF c = "\t" THEN "." ELSE c
LeadingSlashes(s) == Leading(s, "/")

Cleaned(s) ==
  ReplaceAll(ReplaceAll(ReplaceAll(s, Dots, <<".">>), Slashes, <<"/">>), <<"/", ".", "/">>, <<"/">>)
safedir(dir, behind) ==
  LET ret == Cleaned([i \in DOMAIN dir |-> Printable(dir[i])] \o behind)
      all == SubSeq(ret, 1, IF Len(ret) < Len(dir) THEN Len(ret) ELSE Len(dir))
  IN  <<"/">> \o SubSeq(all, LeadingSlashes(all) + 1, Len(all))

----------------------------------------------------------------------------
(* What may stand behind the unterminated copy.                            *)
Behind == {<<>>} \cup {<<c>> : c \in {"a", ".", "/"}} \cup {<<".", "/">>, <<"/", "a">>}

(* A cleaned path starts at the root and has no empty component and none   *)
(* that leads upwards, whatever the replacements made adjacent and         *)
(* whatever stood behind the copy; it is never longer than what was given  *)
(* and the slash (safedir, file.c:210-273).                                *)
SafedirStaysBelow ==
  use = "path" =>
    \A behind \in Behind :
      LET dir == safedir(text, behind) IN
      /\ startswith(dir, <<"/">>)
      /\ ~ Occurs(Dots, dir) /\ ~ Occurs(Slashes, dir)
      /\ Len(dir) <= Len(text) + 1

(* The link the listing makes of a path leads back to it, unless the path  *)
(* has two dots together, which safedir takes for one; and url_encode      *)
(* writes no more than it allocates for a text in which at least as many   *)
(* characters are kept, capitals aside, as are escaped (httpd.vala:18-21,  *)
(* 102-119, string.c:112-193).                                             *)
Listed(s) ==
  /\ ~ startswith(s, <<"/">>) /\ ~ startswith(s, <<".">>)
  /\ ~ Occurs(Slashes, s) /\ ~ Occurs(<<"/", ".">>, s)
Requested(s) ==
  LET link == <<"/">> \o ReplaceAll(url_encode(s), Escape("/"), <<"/">>)
      path == url_decode(safedir(link, <<>>))
  IN  SubSeq(path, LeadingSlashes(path) + 1, Len(path))
Count(s, chars) == Cardinality({i \in DOMAIN s : s[i] \in chars})
LinkLeadsBack ==
  use = "name" =>
    /\ Listed(text) /\ ~ Occurs(Dots, text) => Requested(text) = text
    /\ Count(text, DOMAIN Code) <= Count(text, OtherKept)
         => Len(url_encode(text)) + 1 <= EncodeRoom(text)

(* trim takes the first line's indent off every line, if each line is at   *)
(* least that long; the yaml parser relies on it for nested areas          *)
(* (string.c:68-90, yamlparser.vala:53-77).                                *)
Column(s, i) ==
  i - (IF \E h \in 1 .. i - 1 : s[h] = "\n"
       THEN CHOOSE h \in 1 .. i - 1 : s[h] = "\n" /\ \A g \in h + 1 .. i - 1 : s[g] # "\n"
       ELSE 0)
Dedented(s) ==
  Strings!FlattenSeq([i \in DOMAIN s |-> IF Column(s, i) > count_tab(s) THEN <<s[i]>> ELSE <<>>])
TrimDedents ==
  use = "area" /\ (\A i \in DOMAIN text : text[i] = "\n" => Column(text, i) > count_tab(text))
    => trim(text) = Dedented(text)
=============================================================================
