------------------------------ MODULE SshConfig -------------------------------
(***************************************************************************)
(* parseSshConfig, which turns the text of an OpenSSH configuration into   *)
(* servers to import: apps/server/src/servers/ssh-config-parser.ts and the *)
(* copy the page uses, apps/web/src/state/ssh-config-parser.ts.            *)
(*                                                                         *)
(* A line is what stripComment and tokens make of it: a directive in lower *)
(* case and its words, or no directive, when nothing or only a comment is  *)
(* on it.  The text is read line by line; Finish is what the parsers do    *)
(* after the last one.                                                     *)
(***************************************************************************)
EXTENDS Integers, Sequences, SequencesExt, FiniteSets

CONSTANTS
    Lines,      \* the lines a text may have
    Wildcards,  \* the aliases with one of * ? !
    Number,     \* what Number() makes of the words after Port, where an integer
    Expanded,   \* the identity files with ~ or %USERPROFILE%, expanded
    MaxLines,   \* bound: the longest text
    Nothing

Fields == {"hostname", "port", "user", "identityfile"}

ASSUME LinesAssumption ==
    Lines \subseteq [directive : STRING \union {Nothing}, args : Seq(STRING)]
ASSUME NothingAssumption == Nothing \notin Fields \union {"host"}

VARIABLES
    text,       \* the lines read so far
    blocks,     \* the Host blocks
    current,    \* the index of the block being filled, or 0
    warnings,   \* numbers of the lines warned about
    imported    \* what each of the two parsers returns, or Nothing

parserVars == <<text, blocks, current, warnings, imported>>

Parsers == {"server", "page"}
EmptyValue == <<"">>

ParserTypeOK ==
    /\ text \in Seq(Lines)
    /\ current \in 0..Len(blocks)
    /\ \A i \in DOMAIN blocks :
           /\ blocks[i].aliases \in Seq(STRING) \ {<<>>}
           /\ DOMAIN blocks[i].values \subseteq Fields
           /\ blocks[i].values \in [DOMAIN blocks[i].values -> Seq(STRING)]
           /\ blocks[i].line \in DOMAIN text
    /\ warnings \in Seq(DOMAIN text)
    /\ imported = Nothing \/ DOMAIN imported = Parsers

ParserInit ==
    /\ text = <<>>
    /\ blocks = <<>>
    /\ current = 0
    /\ warnings = <<>>
    /\ imported = Nothing

-----------------------------------------------------------------------------
(* One line. *)

LineNumber == Len(text) + 1

Read(line) ==
    /\ imported = Nothing
    /\ Len(text) < MaxLines
    /\ text' = Append(text, line)
    /\ UNCHANGED imported

Warn == warnings' = Append(warnings, LineNumber)

\* A line with nothing on it counts as a line.
Blank(line) ==
    /\ line.directive = Nothing
    /\ Read(line)
    /\ UNCHANGED <<blocks, current, warnings>>

\* Mutant: a Host without an alias leaves the block before it open.
HostWithoutAliasStays(line) ==
    /\ line.directive = "host" /\ line.args = <<>>
    /\ Read(line)
    /\ Warn
    /\ UNCHANGED <<blocks, current>>

HostWithoutAlias(line) ==
    /\ line.directive = "host" /\ line.args = <<>>
    /\ Read(line)
    /\ Warn
    /\ current' = 0
    /\ UNCHANGED blocks

\* Mutant: the block remembers the index of its line, not its number.
HostIndex(line) ==
    /\ line.directive = "host" /\ line.args # <<>>
    /\ Read(line)
    /\ blocks' = Append(blocks, [aliases |-> line.args, values |-> <<>>,
                                 line |-> Len(text)])
    /\ current' = Len(blocks) + 1
    /\ UNCHANGED warnings

Host(line) ==
    /\ line.directive = "host" /\ line.args # <<>>
    /\ Read(line)
    /\ blocks' = Append(blocks, [aliases |-> line.args, values |-> <<>>,
                                 line |-> LineNumber])
    /\ current' = Len(blocks) + 1
    /\ UNCHANGED warnings

\* Include and ProxyJump anywhere, every directive outside of a block, one that
\* is not a field, and a field without a value: all are ignored with a warning.
Ignored(line) ==
    /\ line.directive \notin {Nothing, "host"}
    /\ \/ current = 0
       \/ line.directive \notin Fields
       \/ line.args = <<>>
    /\ Read(line)
    /\ Warn
    /\ UNCHANGED <<blocks, current>>

\* Mutant: the last value wins.
FieldLastWins(line) ==
    /\ line.directive \in Fields /\ current # 0 /\ line.args # <<>>
    /\ Read(line)
    /\ blocks' = [blocks EXCEPT ![current].values =
                     [f \in DOMAIN @ \union {line.directive} |->
                         IF f = line.directive THEN line.args ELSE @[f]]]
    /\ UNCHANGED <<current, warnings>>

\* The first value of a field wins.
Field(line) ==
    /\ line.directive \in Fields /\ current # 0 /\ line.args # <<>>
    /\ Read(line)
    /\ blocks' = [blocks EXCEPT ![current].values =
                     [f \in DOMAIN @ \union {line.directive} |->
                         IF f \in DOMAIN @ THEN @[f] ELSE line.args]]
    /\ UNCHANGED <<current, warnings>>

-----------------------------------------------------------------------------
(* After the last line. *)

Value(values, field, default) ==
    IF field \in DOMAIN values THEN values[field] ELSE default

\* "value || default" and "value ? ... : default": an empty value is no value.
NonEmpty(value, default) == IF value = EmptyValue THEN default ELSE value

\* Number of something that is no integer is refused like the port 0.
NumberOf(words) == IF words \in DOMAIN Number THEN Number[words] ELSE 0

\* The server takes an empty port for none, the page for 0.
Port(parser, values) ==
    LET given == Value(values, "port", <<"22">>)
    IN NumberOf(IF parser = "server" THEN NonEmpty(given, <<"22">>) ELSE given)

expandIdentityFile(parser, path) ==
    IF parser = "server" /\ path \in DOMAIN Expanded THEN Expanded[path] ELSE path

\* The server that is imported for one alias of a block.
Item(parser, values, alias) ==
    LET file == NonEmpty(Value(values, "identityfile", EmptyValue), Nothing)
    IN [alias |-> alias,
        host |-> NonEmpty(Value(values, "hostname", EmptyValue), <<alias>>),
        port |-> Port(parser, values),
        username |-> Value(values, "user", EmptyValue),
        identityFile |-> IF file = Nothing THEN Nothing ELSE expandIdentityFile(parser, file)]

Items(parser, values, aliases) ==
    [n \in DOMAIN aliases |-> Item(parser, values, aliases[n])]

Wildcard(aliases) == \E n \in DOMAIN aliases : aliases[n] \in Wildcards

PortNumbers == 1..65535

Accepts(parser, values, aliases) ==
    ~ Wildcard(aliases) /\ Port(parser, values) \in PortNumbers

\* Each block gives its servers or a warning with the number of its Host line.
Finish ==
    /\ imported = Nothing
    /\ imported' = [p \in Parsers |->
           LET Taken(b) == Accepts(p, b.values, b.aliases)
           IN [hosts |-> FlattenSeq([i \in DOMAIN blocks |->
                   IF Taken(blocks[i])
                   THEN Items(p, blocks[i].values, blocks[i].aliases) ELSE <<>>]),
               warnings |-> warnings \o FlattenSeq([i \in DOMAIN blocks |->
                   IF Taken(blocks[i]) THEN <<>> ELSE <<blocks[i].line>>])]]
    /\ UNCHANGED <<text, blocks, current, warnings>>

ReadLine(line) ==
    \/ Blank(line) \/ HostWithoutAlias(line) \/ Host(line)
    \/ Ignored(line) \/ Field(line)

ParserNext == Finish \/ \E line \in Lines : ReadLine(line)

ParserSpec == ParserInit /\ [][ParserNext]_parserVars

-----------------------------------------------------------------------------
(* Correctness: what the result is, told from the text as a whole. *)

\* The lines that open a section to import, and the lines of the section: it
\* ends where OpenSSH ends it, at the next Host or Match.
Sections == {i \in DOMAIN text : text[i].directive = "host"}
Ends == {i \in DOMAIN text : text[i].directive \in {"host", "match"}}
Section(i) == {j \in (i + 1)..Len(text) : Ends \intersect ((i + 1)..j) = {}}

\* The lines that give a field a value, and those of them that stand below a
\* Match line, in a section nobody imports.
FieldLines == {j \in DOMAIN text : text[j].directive \in Fields /\ text[j].args # <<>>}
BelowMatch ==
    {j \in FieldLines : \E m \in 1..j :
        text[m].directive = "match" /\ Sections \intersect (m..j) = {}}

\* The values a section gives: of each field the first.
Gives(i, field) == {j \in Section(i) \intersect FieldLines : text[j].directive = field}
Given(i) ==
    [field \in {f \in Fields : Gives(i, f) # {}} |->
        text[CHOOSE j \in Gives(i, field) : \A k \in Gives(i, field) : j <= k].args]

Importable(parser, i) ==
    /\ text[i].args # <<>>
    /\ \A n \in DOMAIN text[i].args : text[i].args[n] \notin Wildcards
    /\ Port(parser, Given(i)) \in PortNumbers

Meets(parser) ==
    imported[parser].hosts =
        LET ServersOf(i) == IF i \in Sections /\ Importable(parser, i)
                            THEN Items(parser, Given(i), text[i].args) ELSE <<>>
        IN FlattenSeq([i \in DOMAIN text |-> ServersOf(i)])

(* The servers that are imported are those of the sections that name no
   pattern and have a possible port, one for each alias, in the order of the
   text, each with the first value its own section gives: neither a Host line
   without an alias, nor an ignored directive, nor another Host section changes
   them (design, line 144).  It is said of texts without a value below
   a Match line; HostsMeetEveryText is what becomes of the others. *)
HostsMeetText ==
    imported # Nothing /\ BelowMatch = {} => \A p \in Parsers : Meets(p)

(* The same of every text: a Match line, which is not supported, does not
   silently change what is imported (plan 2026-08-24-ssh-launchpad.md, line
   426).  The parsers break it: Match leaves the section before it open, and
   the values below go to that section without a warning of their own. *)
HostsMeetEveryText ==
    imported # Nothing => \A p \in Parsers : Meets(p)

WarningsAt(parser, j) ==
    Cardinality({n \in DOMAIN imported[parser].warnings : imported[parser].warnings[n] = j})

\* A line the result is made of: the Host line of an imported section, or the
\* first value of a field in one.
TakesEffect(parser, j) ==
    \/ j \in Sections /\ Importable(parser, j)
    \/ \E i \in Sections, f \in Fields :
           /\ Importable(parser, i)
           /\ j \in Gives(i, f)
           /\ \A k \in Gives(i, f) : j <= k

\* A further value of a field the section already has: dropped in silence.
Repeated(j) ==
    \E i \in Sections, f \in Fields :
        /\ text[i].args # <<>>
        /\ j \in Gives(i, f)
        /\ \E k \in Gives(i, f) : k < j

\* A value in a section that is not imported: its Host line has the warning.
InRefused(parser, j) ==
    \E i \in Sections, f \in Fields :
        /\ text[i].args # <<>>
        /\ ~ Importable(parser, i)
        /\ j \in Gives(i, f)

(* No line is warned about twice, none that takes effect is warned about, and
   every line that takes none is, but three kinds: a blank one, a further value
   of a field, which is dropped in silence (ssh-config-parser.ts:111), and a
   value in a refused section, whose Host line has a warning instead.  Of texts
   without a value below a Match line, as above. *)
LinesAccountedFor ==
    imported # Nothing /\ BelowMatch = {} =>
        \A p \in Parsers, j \in DOMAIN text :
            /\ TakesEffect(p, j) => WarningsAt(p, j) = 0
            /\ ~ TakesEffect(p, j) =>
                   WarningsAt(p, j) =
                       IF text[j].directive = Nothing \/ Repeated(j) \/ InRefused(p, j)
                       THEN 0 ELSE 1
=============================================================================
