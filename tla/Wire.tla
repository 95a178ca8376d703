-------------------------------- MODULE Wire -------------------------------
(***************************************************************************)
(* From the bytes of a TCP connection to commands: RespParser              *)
(* (src/src/protocol/parser.js) and ClientConnection._onData               *)
(* (src/src/connection.js).  A client writes well-formed messages and the  *)
(* network cuts the stream into chunks wherever it likes.                  *)
(*                                                                         *)
(* The stream is a sequence of tokens: the marks of RESP, CR and LF, one   *)
(* token for the digits of a number, and the bytes of data, which may look *)
(* like any of the others.  A command is the sequence of its arguments.    *)
(***************************************************************************)
EXTENDS Integers, Sequences, SequencesExt

CONSTANTS
    Asterisk, Dollar, Plus, CR, LF,
    Letters,      \* the bytes that are no marks
    Quit,         \* the name of the command QUIT
    Streams,      \* the sequences of messages that clients write
    WChunk        \* bounds the tokens of a chunk

CRLF == <<CR, LF>>
Tokens == {Asterisk, Dollar, Plus, CR, LF} \cup Letters \cup Int

\* The messages: an array of bulk strings, each of them a sequence of bytes; a
\* line of words of one byte, ended by CRLF or LF; a null array; a simple
\* string, which is no command.
ArrayMessages == [form : {"array"}, args : Seq(Seq(Tokens))]
LineMessages(end) == [form : {"line"}, args : Seq([{1} -> Letters]), end : {end}]
EmptyMessages == [form : {"null", "simple"}, args : {<<>>}]
CRLFMessages == ArrayMessages \cup LineMessages(CRLF) \cup EmptyMessages

\* The lines of a stream all end alike.
ASSUME WireParameters ==
    /\ WChunk \in Nat
    /\ Asterisk \notin {Plus, CR, LF} /\ Plus \notin {CR, LF}
    /\ CR \notin Int \cup {Dollar, LF} /\ {Asterisk, Plus, CR, LF} \cap Letters = {}
    /\ Streams \subseteq Seq(CRLFMessages) \cup Seq(LineMessages(<<LF>>))

\* The first n bulk strings of an array one after the other, for each n.
Bulk(arg) == <<Dollar, Len(arg)>> \o CRLF \o arg \o CRLF
Bulks(args) ==
    LET First[n \in 0 .. Len(args)] ==
            IF n = 0 THEN <<>> ELSE First[n - 1] \o Bulk(args[n])
    IN  First

\* How the client writes a message.
Written(message) ==
    LET args == message.args
    IN  CASE message.form = "array" ->
                <<Asterisk, Len(args)>> \o CRLF \o Bulks(args)[Len(args)]
          [] message.form = "line" -> [i \in 1 .. Len(args) |-> args[i][1]] \o message.end
          [] message.form = "null" -> <<Asterisk, -1>> \o CRLF
          [] message.form = "simple" -> <<Plus>> \o CRLF

\* The first n messages one after the other, for each n.
Stream(messages) ==
    LET First[n \in 0 .. Len(messages)] ==
            IF n = 0 THEN <<>> ELSE First[n - 1] \o Written(messages[n])
    IN  First

VARIABLES
    wsent,        \* the messages of this connection
    wstream,      \* as they are written
    warrived,     \* how many tokens of the stream have arrived
    wbuffer,      \* _buffer of the parser
    wbusy,        \* is _onData at work on a chunk
    wdone,        \* the commands dispatched
    wclosing,     \* closing, set by QUIT
    wstopped,     \* has _onData returned early: what it had parsed is dropped
    wdropped      \* history: the number of commands dropped

wvars == <<wsent, wstream, warrived, wbuffer, wbusy, wdone, wclosing, wstopped, wdropped>>

WInit ==
    /\ wsent = <<>> /\ wstream = <<>> /\ warrived = 0
    /\ wbuffer = <<>> /\ wbusy = FALSE
    /\ wdone = <<>> /\ wclosing = FALSE /\ wstopped = FALSE /\ wdropped = 0

-----------------------------------------------------------------------------
\* The parser.  A result is a value and where it ends in the buffer, or
\* Incomplete; positions count the tokens before them.
Incomplete == [value |-> <<>>, end |-> -1]
Result(v, n) == [value |-> v, end |-> n]

\* _findCRLF: the position of the first CRLF from at on, or -1.
FindCRLF(buf, at) ==
    LET found == {i \in at + 1 .. Len(buf) - 1 : buf[i] = CR /\ buf[i + 1] = LF}
    IN  IF found = {} THEN -1 ELSE Min(found) - 1

\* Mutant: a bulk string is taken as soon as its data are there.
ParseBulk_NoTerminator(buf, at) ==
    LET crlf == FindCRLF(buf, at)
        end == crlf + 2 + buf[at + 2]
    IN  IF crlf < 0 \/ Len(buf) < end THEN Incomplete
        ELSE Result(SubSeq(buf, crlf + 3, end), Min({end + 2, Len(buf)}))

\* _parseBulkString: its data may hold CRLF.
ParseBulk(buf, at) ==
    LET crlf == FindCRLF(buf, at)
        end == crlf + 2 + buf[at + 2]
    IN  IF crlf < 0 \/ Len(buf) < end + 2 THEN Incomplete
        ELSE Result(SubSeq(buf, crlf + 3, end), end + 2)

\* _parseArray: an array one of whose elements is incomplete is incomplete.
ParseArray(buf) ==
    LET crlf == FindCRLF(buf, 0)
        Elements[n \in 0 .. buf[2]] ==
            IF n = 0 THEN Result(<<>>, crlf + 2)
            ELSE LET others == Elements[n - 1]
                     element == ParseBulk(buf, others.end)
                 IN  IF others = Incomplete THEN Incomplete
                     ELSE IF element = Incomplete THEN Incomplete
                     ELSE Result(Append(others.value, element.value), element.end)
    IN  IF crlf < 0 THEN Incomplete
        ELSE IF buf[2] \in {-1, 0} THEN Result(<<>>, crlf + 2)
        ELSE Elements[buf[2]]

\* _parseSimpleString, _parseError and _parseInteger: a value that is no array,
\* which _onData passes over like an empty one.
ParseSimple(buf) ==
    IF FindCRLF(buf, 0) < 0 THEN Incomplete ELSE Result(<<>>, FindCRLF(buf, 0) + 2)

\* _parseInline and _splitInline: a line ends with the first CRLF of the
\* buffer, and only if there is none with its first LF.
ParseInline(buf) ==
    LET crlf == FindCRLF(buf, 0)
        lfs == {i \in 1 .. Len(buf) : buf[i] = LF}
        words(n) == [i \in 1 .. n |-> <<buf[i]>>]
    IN  IF crlf >= 0 THEN Result(words(crlf), crlf + 2)
        ELSE IF lfs # {} THEN Result(words(Min(lfs) - 1), Min(lfs))
        ELSE Incomplete

TryParse(buf) ==
    CASE buf[1] = Asterisk -> ParseArray(buf)
      [] buf[1] = Plus -> ParseSimple(buf)
      [] OTHER -> ParseInline(buf)

-----------------------------------------------------------------------------
\* A connection opens, and its client begins to write.
WOpen(messages) ==
    /\ wsent = <<>>
    /\ wsent' = messages /\ wstream' = Stream(messages)[Len(messages)]
    /\ UNCHANGED <<warrived, wbuffer, wbusy, wdone, wclosing, wstopped, wdropped>>

\* A chunk arrives and is appended.
Receive(n) ==
    /\ ~wbusy /\ warrived + n <= Len(wstream)
    /\ warrived' = warrived + n
    /\ wbuffer' = wbuffer \o SubSeq(wstream, warrived + 1, warrived + n)
    /\ wbusy' = TRUE
    /\ UNCHANGED <<wsent, wstream, wdone, wclosing, wstopped, wdropped>>

FirstMessage == IF wbuffer = <<>> THEN Incomplete ELSE TryParse(wbuffer)

\* No complete message is left: the rest waits for the next chunk.
ParseEnd ==
    /\ wbusy /\ FirstMessage = Incomplete
    /\ wbusy' = FALSE /\ wstopped' = FALSE
    /\ UNCHANGED <<wsent, wstream, warrived, wbuffer, wdone, wclosing, wdropped>>

\* What _onData does with a command: once the connection is closing it returns
\* after the first one of every chunk.
Dispatch(command) ==
    IF wstopped THEN wdropped' = wdropped + 1 /\ UNCHANGED <<wdone, wclosing, wstopped>>
    ELSE /\ wdone' = Append(wdone, command)
         /\ wclosing' = (wclosing \/ command[1] = <<Quit>>)
         /\ wstopped' = wclosing'
         /\ UNCHANGED wdropped

\* One message of the chunk; _onData parses all of them before it dispatches
\* the first, which makes no difference to either.
ParseMessage ==
    LET first == FirstMessage
    IN  /\ wbusy /\ first # Incomplete
        /\ wbuffer' = SubSeq(wbuffer, first.end + 1, Len(wbuffer))
        /\ IF first.value = <<>> THEN UNCHANGED <<wdone, wclosing, wstopped, wdropped>>
           ELSE Dispatch(first.value)
        /\ UNCHANGED <<wsent, wstream, warrived, wbusy>>

\* The connection ends, whether or not everything has arrived.
WClose ==
    /\ wsent # <<>> /\ ~wbusy
    /\ wsent' = <<>> /\ wstream' = <<>> /\ warrived' = 0
    /\ wbuffer' = <<>>
    /\ wdone' = <<>> /\ wclosing' = FALSE /\ wdropped' = 0
    /\ UNCHANGED <<wbusy, wstopped>>

WNext ==
    \/ \E messages \in Streams : WOpen(messages)
    \/ ParseMessage \/ ParseEnd
    \/ \E n \in 1 .. WChunk : Receive(n)
    \/ WClose

WSpec == WInit /\ [][WNext]_wvars

-----------------------------------------------------------------------------
\* The commands among the first n messages, for each n.
CommandsOf(messages) ==
    LET First[n \in 0 .. Len(messages)] ==
            IF n = 0 THEN <<>>
            ELSE IF messages[n].args = <<>> THEN First[n - 1]
            ELSE Append(First[n - 1], messages[n].args)
    IN  First
Complete == Max({n \in 0 .. Len(wsent) : Len(Stream(wsent)[n]) <= warrived})
QuitsIn(commands) == {i \in 1 .. Len(commands) : commands[i][1] = <<Quit>>}

\* However the stream is cut into chunks, the commands that have been
\* dispatched are those that have arrived completely, in order, each once and
\* none later than its last byte; this holds up to QUIT, and of those after
\* it each is dispatched or dropped (parser.js:16-151,
\* connection.js:40-91).
CommandsAsWritten ==
    ~wbusy =>
        LET commands == CommandsOf(wsent)[Complete]
            quits == QuitsIn(commands)
        IN  /\ Len(wdone) + wdropped = Len(commands)
            /\ IF quits = {} THEN wdone = commands
               ELSE IsPrefix(SubSeq(commands, 1, Min(quits)), wdone)

=============================================================================
