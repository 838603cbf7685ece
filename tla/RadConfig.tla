----------------------------- MODULE RadConfig ------------------------------
(* rad_config: reading a file of servers, and split, which cuts a line of it *)
(* into fields (radlib.c).                                                   *)
(*                                                                           *)
(* A file is a sequence of symbols: the characters with a meaning for the    *)
(* parser, digits, and words that stand for strings without any of these.    *)
(* There are no zero bytes in it.                                            *)
EXTENDS Integers, Sequences, FiniteSetsExt, SequencesExt

CONSTANTS
  Symbols,      \* what files are made of
  MAXCONFLINE,  \* size of the line buffer, here in symbols (1024)
  MAXSERVERS,   \* entries in the server table (10)
  KnownHosts,   \* the hosts inet_aton or gethostbyname can resolve
  Entries,      \* what an administrator writes: see Written
  Asides,       \* lines that are not entries and say nothing
  Faults        \* mistakes in a line: see Mistaken

MAXFIELDS == 5
TIMEOUT == 3
MAXTRIES == 3

Blank == {" ", "TAB"}
Digits == <<"0", "1", "2", "3", "4", "5", "6", "7", "8", "9">>

ASSUME ConfigAssumption ==
  /\ MAXCONFLINE \in Nat /\ MAXCONFLINE >= 3
  /\ MAXSERVERS \in Nat \ {0}
ASSUME SymbolsAssumption ==
  /\ {"LF", "CR", " ", "TAB", "#", "QUOTE", "ESCAPE", ":", "auth", "acct"} \subseteq Symbols
  /\ \A i \in 1..10 : Digits[i] \in Symbols

-----------------------------------------------------------------------------
(* split                                                                     *)

(* One character.  "space" is between fields, "word" and "quoted" inside     *)
(* one, "closed" behind the closing quote.                                   *)
SplitStep(st, c) ==
  LET mode(m) == [st EXCEPT !.mode = m]
      open(m, field) == [mode |-> m, fields |-> Append(st.fields, field)]
      add(m) == [mode |-> m,
                 fields |-> Append(Front(st.fields), Append(Last(st.fields), c))]
  IN  CASE st.mode = "space" /\ c \in Blank -> st
        [] st.mode = "space" /\ c = "#" -> mode("comment")
        [] st.mode = "space" /\ c \notin Blank \cup {"#"} ->
             IF Len(st.fields) >= MAXFIELDS THEN mode("error")
             ELSE IF c = "QUOTE" THEN open("quoted", << >>)
             ELSE open("word", <<c>>)
        [] st.mode = "word" -> IF c \in Blank THEN mode("space") ELSE add("word")
        [] st.mode = "quoted" /\ c = "QUOTE" ->
             IF Last(st.fields) = << >> THEN mode("error") ELSE mode("closed")
        [] st.mode = "quoted" /\ c = "ESCAPE" -> mode("escape")
        [] st.mode = "quoted" /\ c \notin {"QUOTE", "ESCAPE"} -> add("quoted")
        [] st.mode = "escape" ->
             IF c \in {"QUOTE", "ESCAPE"} THEN add("quoted") ELSE mode("error")
        [] st.mode = "closed" ->
             IF c \in Blank THEN mode("space") ELSE mode("error")
        [] st.mode \in {"comment", "error"} -> st

Split(line) ==
  LET after[i \in 0..Len(line)] ==
        IF i = 0 THEN [mode |-> "space", fields |-> << >>]
        ELSE SplitStep(after[i - 1], line[i])
  IN  after[Len(line)]

(* Mutant: the end of the line ends a quoted string too.                     *)
SplitFailsInside(line) == Split(line).mode \in {"error", "escape"}

SplitFails(line) == Split(line).mode \in {"error", "quoted", "escape"}
FieldsOf(line) == Split(line).fields

-----------------------------------------------------------------------------
(* One line.                                                                 *)

(* strtoul up to the end of the field: white space, which a quoted field may *)
(* have, one sign, and digits.  Nothing at all counts as 0.                  *)
Unspaced(field) ==
  LET at == SelectInSeq(field, LAMBDA c : c \notin Blank \cup {"CR", "LF"})
  IN  IF at = 0 THEN field ELSE SubSeq(field, at, Len(field))
Negative(field) == field # << >> /\ Head(Unspaced(field)) = "-"
Unsigned(field) ==
  IF field # << >> /\ Head(Unspaced(field)) \in {"+", "-"} THEN Tail(Unspaced(field))
  ELSE Unspaced(field)
IsNumber(field) ==
  field = << >> \/ (Unsigned(field) # << >> /\ ToSet(Unsigned(field)) \subseteq ToSet(Digits))
NumberOf(field) ==
  LET digits == Unsigned(field)
      value[i \in 0..Len(digits)] ==
        IF i = 0 THEN 0
        ELSE 10 * value[i - 1] + (CHOOSE d \in 1..10 : Digits[d] = digits[i]) - 1
  IN  IF Negative(field) THEN -value[Len(digits)] ELSE value[Len(digits)]

(* strsep at the first colon, and at the second.                             *)
Before(field, c) ==
  LET at == SelectInSeq(field, LAMBDA x : x = c)
  IN  IF at = 0 THEN field ELSE SubSeq(field, 1, at - 1)
Behind(field, c) ==
  LET at == SelectInSeq(field, LAMBDA x : x = c)
  IN  IF at = 0 THEN << >> ELSE SubSeq(field, at + 1, Len(field))
HostOf(field) == Before(field, ":")
PortOf(field) == Before(Behind(field, ":"), ":")

Services == {<<"auth">>, <<"acct">>}

Skip == [error |-> FALSE, servers |-> << >>]
Error == [error |-> TRUE, servers |-> << >>]
Server(host, port, secret, timeout, max_tries) ==
  [host |-> host, port |-> port, secret |-> secret, timeout |-> timeout,
   max_tries |-> max_tries]

(* What a handle of a type gets from a line: at most one server.  A line     *)
(* that does not begin with a service is for authentication.  The            *)
(* numbers and the host of a line for the other type are not looked at.      *)
ParseLine(line, type) ==
  LET given == FieldsOf(line)
      named == given # << >> /\ given[1] \in Services
      fields == IF named THEN given ELSE << <<"auth">> >> \o given
      number(i, default) == IF i <= Len(fields) THEN NumberOf(fields[i]) ELSE default
      malformed == \/ SplitFails(line)
                   \/ given # << >> /\ Len(fields) \notin 3..MAXFIELDS
      ours == given # << >> /\ fields[1] = <<type>>
      invalid == \/ HostOf(fields[2]) \notin KnownHosts
                 \/ ~IsNumber(PortOf(fields[2]))
                 \/ \E i \in 4..Len(fields) : ~IsNumber(fields[i])
  IN  IF malformed \/ (ours /\ invalid) THEN Error
      ELSE IF ~ours THEN Skip
      ELSE [error |-> FALSE,
            servers |-> <<Server(HostOf(fields[2]), NumberOf(PortOf(fields[2])),
                                 fields[3], number(4, TIMEOUT), number(5, MAXTRIES))>>]

-----------------------------------------------------------------------------
(* The file.                                                                 *)

(* fgets: up to the end of the line, of the buffer or of the file.           *)
LineEnd(file, start) ==
  Min({i \in start..Len(file) : file[i] = "LF"}
        \cup {Len(file), start + MAXCONFLINE - 2})
Lines(file) ==
  LET from[i \in 1..(Len(file) + 1)] ==
        IF i > Len(file) THEN << >>
        ELSE <<SubSeq(file, i, LineEnd(file, i))>> \o from[LineEnd(file, i) + 1]
  IN  from[1]

(* Mutant: the test as its message has it.                                   *)
NoNewlineAtAll(line, garbage) == Last(line) # "LF"

(* The test for a missing newline: it finds one only behind a carriage       *)
(* return.  garbage is the byte in front of the buffer.                      *)
NoNewline(line, garbage) ==
  /\ Last(line) # "LF"
  /\ (IF Len(line) > 1 THEN line[Len(line) - 1] ELSE garbage) = "CR"

(* The first error ends the reading, and the servers of the lines before it  *)
(* stay.                                                                     *)
ReadLine(st, line, parsed, garbage) ==
  IF ~st.ok THEN st
  ELSE IF NoNewline(line, garbage) \/ parsed.error
            \/ Len(st.servers \o parsed.servers) > MAXSERVERS
         THEN [st EXCEPT !.ok = FALSE]
  ELSE [ok |-> TRUE, servers |-> st.servers \o parsed.servers]

(* rad_config, once the file is open: whether it succeeds, and the servers   *)
(* of the handle afterwards.  The last character of a line is cut off,       *)
(* whatever it is; after[i] is what i lines have come to.                    *)
Config(file, type, servers, garbage) ==
  LET lines == Lines(file)
      parsed == [line \in ToSet(lines) |-> ParseLine(Front(line), type)]
      after[i \in 0..Len(lines)] ==
        IF i = 0 THEN [ok |-> TRUE, servers |-> servers]
        ELSE ReadLine(after[i - 1], lines[i], parsed[lines[i]], garbage)
  IN  after[Len(lines)]

-----------------------------------------------------------------------------
(* What files say.  An entry is a server for one kind of handle and the way  *)
(* it is written down: with or without its service, its secret quoted or     *)
(* bare.  A fault is a number of words no line has, or words and a quoted    *)
(* string with something wrong behind what is in it.                         *)
(* (For the properties ConfigReadsWritten and LineEndIsCut.)                 *)

Decimal(n) ==
  IF n < 10 THEN <<Digits[n + 1]>> ELSE <<Digits[n \div 10 + 1], Digits[(n % 10) + 1]>>
Escaped(secret) ==
  FlattenSeq([i \in 1..Len(secret) |->
               IF secret[i] \in {"QUOTE", "ESCAPE"} THEN <<"ESCAPE", secret[i]>>
               ELSE <<secret[i]>>])
Quoted(secret) == <<"QUOTE">> \o Escaped(secret) \o <<"QUOTE">>
Address(sv) == sv.host \o (IF sv.port = 0 THEN << >> ELSE <<":">> \o Decimal(sv.port))
Written(entry) ==
  LET sv == entry.server
  IN  (IF entry.named THEN <<entry.type, " ">> ELSE << >>)
        \o Address(sv)
        \o <<" ">> \o (IF entry.quoted THEN Quoted(sv.secret) ELSE sv.secret)
        \o (IF <<sv.timeout, sv.max_tries>> = <<TIMEOUT, MAXTRIES>> THEN << >>
            ELSE <<"TAB">> \o Decimal(sv.timeout) \o <<" ">> \o Decimal(sv.max_tries))
Spaced(words) ==
  FlattenSeq([i \in 1..Len(words) |-> (IF i = 1 THEN << >> ELSE <<" ">>) \o words[i]])
Mistaken(fault) ==
  Spaced(fault.words)
    \o (IF fault.quoted THEN <<" ", "QUOTE">> \o Escaped(fault.secret) \o fault.behind
        ELSE << >>)
Mistakes == {Mistaken(fault) : fault \in Faults}

WrittenAll(entries) == [i \in 1..Len(entries) |-> Written(entries[i])]
Ended(lines) == FlattenSeq([i \in 1..Len(lines) |-> lines[i] \o <<"LF">>])

ServersFor(entries, type) ==
  FlattenSeq([i \in 1..Len(entries) |->
               IF entries[i].type = type THEN <<entries[i].server>> ELSE << >>])

(* A line that fits into the buffer, with room for so many symbols.          *)
IsLine(line, room) ==
  /\ line \in Seq(Symbols) /\ "LF" \notin ToSet(line)
  /\ Len(line) + room < MAXCONFLINE
IsWord(word) ==
  /\ word \in Seq(Symbols) /\ word # << >>
  /\ word[1] \notin {"#", "QUOTE"} /\ ToSet(word) \cap Blank = {}

(* A host has no colon, and is not called auth if a line begins with it.     *)
IsEntry(entry) ==
  LET sv == entry.server
  IN  /\ entry.type \in {"auth", "acct"} /\ {entry.named, entry.quoted} \subseteq BOOLEAN
      /\ sv = Server(sv.host, sv.port, sv.secret, sv.timeout, sv.max_tries)
      /\ sv.host \in KnownHosts /\ IsWord(sv.host) /\ ":" \notin ToSet(sv.host)
      /\ ~entry.named => entry.type = "auth" /\ sv.host \notin Services
      /\ IF entry.quoted THEN sv.secret \in Seq(Symbols) \ {<< >>} ELSE IsWord(sv.secret)
      /\ {sv.port, sv.timeout, sv.max_tries} \subseteq 0..99
      /\ "CR" \notin ToSet(Written(entry)) /\ IsLine(Written(entry), 2)

(* Blanks, and perhaps a comment.                                            *)
IsAside(line) ==
  /\ IsLine(line, 1)
  /\ \E n \in 0..Len(line) : /\ \A i \in 1..n : line[i] \in Blank
                             /\ n < Len(line) => line[n + 1] = "#"

(* The quoted string is not ended, or has an escape of something else, is    *)
(* empty, or has no blank behind it.                                         *)
IsFault(fault) ==
  LET words == fault.words
      behind == fault.behind
  IN  /\ IsLine(Mistaken(fault), 1)
      /\ words \in Seq(Seq(Symbols)) \ {<< >>} /\ \A word \in ToSet(words) : IsWord(word)
      /\ fault.quoted \in BOOLEAN
      /\ fault.secret \in Seq(Symbols) /\ behind \in Seq(Symbols)
      /\ IF ~fault.quoted
           THEN Len(words) + (IF words[1] \in Services THEN 0 ELSE 1) \notin 3..MAXFIELDS
         ELSE \/ behind = << >>
              \/ behind[1] = "ESCAPE" /\ (Len(behind) > 1 => behind[2] \notin {"QUOTE", "ESCAPE"})
              \/ behind[1] = "QUOTE" /\ (fault.secret = << >>
                                          \/ (Len(behind) > 1 /\ behind[2] \notin Blank))

ASSUME FileAssumption ==
  /\ \A entry \in Entries : IsEntry(entry)
  /\ \A aside \in Asides : IsAside(aside)
  /\ \A fault \in Faults : IsFault(fault)

(* Every file of up to two entries, a line, and up to one entry more.        *)
FilesReadBack ==
  \A first \in SeqOf(Entries, 2), then \in SeqOf(Entries, 1),
     between \in Asides \cup Mistakes,
     type \in {"auth", "acct"}, had \in SeqOf({entry.server : entry \in Entries}, 1) :
    LET file == Ended(WrittenAll(first) \o <<between>> \o WrittenAll(then))
        wanted == had \o ServersFor(first, type)
                    \o (IF between \in Mistakes THEN << >> ELSE ServersFor(then, type))
        read == Config(file, type, had, "LF")
    IN  /\ read.servers = SubSeq(wanted, 1, Min({MAXSERVERS, Len(wanted)}))
        /\ read.ok <=> between \notin Mistakes /\ Len(wanted) <= MAXSERVERS

(* Every entry whose newline is another symbol, or is where the buffer ends, *)
(* at the end of the file or in front of a line of any kind.                 *)
LinesAreCut ==
  \A entry \in Entries, lost \in {"9", "QUOTE", "#"},
     rest \in {<< >>} \cup Asides \cup {Written(other) : other \in Entries},
     type \in {"auth", "acct"} :
    LET line == Written(entry)
        full == line \o [i \in 1..(MAXCONFLINE - 2 - Len(line)) |-> " "]
        behind == IF rest = << >> THEN << >> ELSE rest \o <<"LF">>
        read(file) == Config(file, type, << >>, "LF")
    IN  /\ read(line \o <<lost>>) = read(line \o <<"LF">>)
        /\ read(full \o <<lost>> \o behind) = read(full \o <<"LF">> \o behind)
        /\ ~read(line \o <<"CR", lost>>).ok
=============================================================================
