------------------------------- MODULE Commands -------------------------------
(***************************************************************************)
(* The text of commands: parse_command and what it is built from, the      *)
(* records of the write-ahead log and the answer to GET.  A text is a      *)
(* sequence of symbols: words the protocol knows, a letter, a character no *)
(* key may contain, a separator, a space that is not one ("vt", which      *)
(* isspace accepts and find_first_of(" \t\r\n") does not), and NUL.        *)
(***************************************************************************)
EXTENDS Integers, Sequences, FiniteSets

CONSTANTS
    MaxKey,     \* 128
    MaxText     \* kDefaultMaxPayload

ASSUME CommandsAssumption == MaxKey \in Nat /\ MaxText \in Nat

VARIABLE typed  \* the payload that parse_command is called with

Word == {"SET", "GET", "DEL", "PING", "STATS"}
KeyPart == Word \cup {"k"}
Separator == {" "}
Space == Separator \cup {"vt"}

Count(text, symbols) == Cardinality({i \in DOMAIN text : text[i] \in symbols})

\* The number of characters: a word has three or more, any other symbol is one.
Size(text) ==
    Len(text) + 2 * Count(text, Word) + Count(text, {"PING"}) + 2 * Count(text, {"STATS"})
              + 4 * Count(text, {"VALUE"})

First(places) == CHOOSE i \in places : \A j \in places : i <= j
Final(places) == CHOOSE i \in places : \A j \in places : j <= i

-----------------------------------------------------------------------------
Trim(text) ==
    LET kept == {i \in DOMAIN text : text[i] \notin Space}
    IN  IF kept = {} THEN <<>> ELSE SubSeq(text, First(kept), Final(kept))

\* The rest is not trimmed.
SplitOnceRaw(text) ==
    LET t == Trim(text)
        ends == {i \in DOMAIN t : t[i] \in Separator}
    IN  IF ends = {} THEN [first |-> t, rest |-> <<>>]
        ELSE [first |-> SubSeq(t, 1, First(ends) - 1), rest |-> SubSeq(t, First(ends) + 1, Len(t))]

\* The part up to the first separator, and the rest.
SplitOnce(text) ==
    LET t == Trim(text)
        ends == {i \in DOMAIN t : t[i] \in Separator}
    IN  IF ends = {} THEN [first |-> t, rest |-> <<>>]
        ELSE [first |-> SubSeq(t, 1, First(ends) - 1),
              rest |-> Trim(SubSeq(t, First(ends) + 1, Len(t)))]

ValidKey(key) == Size(key) \in 1 .. MaxKey /\ \A i \in DOMAIN key : key[i] \in KeyPart

NoCommand == [verb |-> "error"]

ParseCommand(payload) ==
    LET verb == SplitOnce(payload).first
        arguments == SplitOnce(payload).rest
        key == SplitOnce(arguments).first
        rest == SplitOnce(arguments).rest
        legal == \A i \in DOMAIN payload : payload[i] # "nul"
    IN  CASE legal /\ verb \in {<<"PING">>, <<"STATS">>} /\ arguments = <<>> ->
               [verb |-> verb[1]]
          [] legal /\ verb \in {<<"GET">>, <<"DEL">>} /\ ValidKey(key) /\ rest = <<>> ->
               [verb |-> verb[1], key |-> key]
          [] legal /\ verb = <<"SET">> /\ ValidKey(key) /\ rest # <<>> ->
               [verb |-> "SET", key |-> key, value |-> rest]
          [] OTHER -> NoCommand

\* The key is followed by a separator too many.
RecordPadded(command) ==
    <<command.verb, " ">> \o command.key \o
        IF command.verb = "SET" THEN <<" ", " ">> \o command.value ELSE <<>>

\* append_set and append_del.
Record(command) ==
    <<command.verb, " ">> \o command.key \o
        IF command.verb = "SET" THEN <<" ">> \o command.value ELSE <<>>

\* execute for GET of a key that has this value.
ValueAnswer(value) == <<"VALUE", " ">> \o value

-----------------------------------------------------------------------------
(* The grammar, by where the parts of a command lie in its text.           *)

Blank(text, i, j) == \A k \in i .. j : text[k] \in Space

\* White space between two parts begins with a separator.
Gap(text, i, j) == i <= j /\ text[i] \in Separator /\ Blank(text, i, j)

VerbAt(text, i) == text[i] \in Word /\ Blank(text, 1, i - 1)

\* Symbols a to b are the key of the verb at i.
KeyAt(text, i, a, b) ==
    /\ Gap(text, i + 1, a - 1)
    /\ a <= b /\ \A k \in a .. b : text[k] \in KeyPart
    /\ Size(SubSeq(text, a, b)) <= MaxKey

\* Symbols d to e are the value that follows a key that ends at b.
ValueAt(text, b, d, e) ==
    /\ Gap(text, b + 1, d - 1)
    /\ d <= e /\ text[d] \notin Space /\ text[e] \notin Space
    /\ \A k \in d .. e : text[k] # "nul"
    /\ Blank(text, e + 1, Len(text))

\* Where parts may lie: a pair is the first and the last symbol of one.
Places(text) == (DOMAIN text) \X (DOMAIN text)
Keys(text, i) == {p \in Places(text) : KeyAt(text, i, p[1], p[2])}
Values(text, b) == {p \in Places(text) : ValueAt(text, b, p[1], p[2])}

\* The commands that a text with a verb at i is a sentence for.
Alone(text, i) ==
    {c \in {[verb |-> text[i]]} : text[i] \in {"PING", "STATS"} /\ Blank(text, i + 1, Len(text))}
WithKey(text, i) ==
    {[verb |-> text[i], key |-> SubSeq(text, p[1], p[2])] :
        p \in {p \in Keys(text, i) :
                  text[i] \in {"GET", "DEL"} /\ Blank(text, p[2] + 1, Len(text))}}
WithValue(text, i) ==
    UNION {{[verb |-> "SET", key |-> SubSeq(text, p[1], p[2]), value |-> SubSeq(text, q[1], q[2])] :
               q \in Values(text, p[2])} :
             p \in {p \in Keys(text, i) : text[i] = "SET"}}

Meanings(text) ==
    UNION {Alone(text, i) \cup WithKey(text, i) \cup WithValue(text, i) :
             i \in {i \in DOMAIN text : VerbAt(text, i)}}

\* parse_command accepts the sentences of the grammar and nothing else, and the
\* command it gives is the only one that the sentence can stand for.
ParserMatchesGrammar == Meanings(typed) = {ParseCommand(typed)} \ {NoCommand}

\* A request that fits a frame and changes the store gives a record that fits one
\* and that recovery reads as the same command ("Reject an inconsistent server
\* configuration before it can acknowledge a record that a later restart cannot
\* replay"), and what it stored can be sent back by GET in a frame that the
\* bundled client accepts: the words around a value in an answer are never longer
\* than those around it in the request.
StoredCanBeReplayedAndRead ==
    LET c == ParseCommand(typed)
    IN  Size(typed) <= MaxText /\ c.verb \in {"SET", "DEL"} =>
            /\ Size(Record(c)) <= MaxText
            /\ ParseCommand(Record(c)) = c
            /\ c.verb = "SET" => Size(ValueAnswer(c.value)) <= MaxText
=============================================================================
