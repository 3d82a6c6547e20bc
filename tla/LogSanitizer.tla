----------------------------- MODULE LogSanitizer -----------------------------
(***************************************************************************)
(* What havRemote takes out of diagnostic text before it is shown, logged  *)
(* or saved (core/logSanitizer.cpp).                                       *)
(*                                                                         *)
(* A text is a sequence of tokens: a punctuation mark, a space (or a tab), *)
(* an FTP command that carries a credential ("user"), a word that names a  *)
(* secret ("password"), any other letter ("x"), a control character, or a  *)
(* replacement.  Case is folded.                                           *)
(***************************************************************************)
EXTENDS Naturals, Sequences, FiniteSetsExt, SequencesExt

Width(token) ==
    CASE token = "<credentials>" -> 13 [] token = "<redacted>" -> 10
      [] token = "password" -> 8 [] token = "user" -> 4 [] OTHER -> 1
Size(text) == FoldLeft(LAMBDA size, token : size + Width(token), 0, text)

FirstOf(text, from, Is(_)) == Min({i \in from .. Len(text) : Is(text[i])} \cup {Len(text) + 1})
AfterSpaces(text, from) == FirstOf(text, from, LAMBDA token : token # " ")
RedactFrom(text, i) == SubSeq(text, 1, i - 1) \o <<"<redacted>">>

IsBoundary(text, i) == i = 1 \/ text[i - 1] \notin {"x", "user", "password"}

(* A user and a password between :// and the @ of a URL's authority.       *)
RedactUrlUserInfo(text) ==
    LET EndOf(i) == FirstOf(text, i, LAMBDA token : token \in {"@", "/", " ", ";"})
        HasPassword(i) == /\ SubSeq(text, i - 3, i - 1) = <<":", "/", "/">>
                          /\ EndOf(i) <= Len(text) /\ text[EndOf(i)] = "@"
                          /\ \E k \in i .. EndOf(i) : text[k] = ":"
        secrets == {i \in 4 .. Len(text) : HasPassword(i)}
        Shown(i) == IF i \in secrets THEN <<"<credentials>">>
                    ELSE IF \E s \in secrets : i \in s .. EndOf(s) - 1 THEN <<>> ELSE <<text[i]>>
    IN  FlattenSeq([i \in DOMAIN text |-> Shown(i)])

RedactFtpCredentialCommand(text) ==
    LET first == AfterSpaces(text, 1)
        command == IF first <= Len(text) /\ text[first] = ">" THEN AfterSpaces(text, first + 1) ELSE first
        value == AfterSpaces(text, command + 1)
    IN  IF command + 1 < value /\ value <= Len(text) /\ text[command] = "user"
        THEN RedactFrom(text, value) ELSE text

(* What follows the first word that names a secret, and its = or colon.    *)
RedactMarked(text) ==
    LET Separator(i) == AfterSpaces(text, i + 1)
        marked == {i \in DOMAIN text : /\ text[i] = "password" /\ IsBoundary(text, i)
                                       /\ Separator(i) <= Len(text) /\ text[Separator(i)] \in {"=", ":"}}
    IN  IF marked = {} THEN text ELSE RedactFrom(text, AfterSpaces(text, Separator(Min(marked)) + 1))

SanitizeDiagnosticText(text) ==
    LET printable == [i \in DOMAIN text |-> IF text[i] = "control" THEN " " ELSE text[i]]
    IN  RedactMarked(RedactFtpCredentialCommand(RedactUrlUserInfo(printable)))

(* Sanitizing what was sanitized changes nothing: the queue file's loader  *)
(* takes text that would change for text havRemote did not write, and      *)
(* refuses the file.                                                       *)
SanitizesOnce(texts) ==
    \A text \in texts :
       LET clean == SanitizeDiagnosticText(text) IN SanitizeDiagnosticText(clean) = clean
=============================================================================
