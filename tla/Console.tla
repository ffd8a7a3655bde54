------------------------------ MODULE Console ------------------------------
(***************************************************************************)
(* The console on the coroutine runtime: its loop reads keys from the      *)
(* UART, edits a line, parses and dispatches it as a command, and flushes  *)
(* what was printed.  The commands, and other tasks, are arbitrary         *)
(* coroutines of TaskLife that print now and then.                         *)
(*                                                                         *)
(* The UART service is seen through its promises: a receive takes a key or *)
(* fails, a transmit takes its time, and the waiting task is resumed.      *)
(***************************************************************************)
EXTENDS TaskLife, Integers, FiniteSetsExt

CONSTANTS con,              \* the frame of console::run
          disp,             \* the frame of dispatch
          cmd,              \* the frame of the command's handler
          Calls,            \* which others create which: pairs <<x, f>>
          Letter,           \* the keys but for blanks, NUL, backspace and enter
          Command,          \* the names in commands_, as sequences of letters
          LineSize,         \* capacity_ of the line editor
          MaxArgs,          \* max_args_ of the parser
          WriteBufferSize,  \* capacity_ of the write buffer
          PrintSize,        \* sizeof(buff) in print: 64
          ChunkSize,        \* sizeof(tx_chunk) in run: 64
          Message,          \* the lengths of formatted messages
          Stamps            \* bound: bytes are told apart by a number below it

NUL == "nul"        \* ends a string, and may be typed like any other key
Blank == "blank"    \* space or tab

ASSUME ConsoleAssumption ==
  /\ con \in Frame \ Plain /\ disp \in Frame \ Plain /\ cmd \in Frame \ Plain
  /\ con # disp /\ con # cmd /\ disp # cmd
  /\ Calls \subseteq ((Frame \ Plain) \cup {App}) \X (Frame \ {con, disp, cmd})
  /\ NUL \notin Letter /\ Blank \notin Letter
  /\ LineSize \in Nat \ {0} /\ MaxArgs \in Nat
  /\ WriteBufferSize \in Nat \ {0, 1}
  /\ PrintSize \in Nat \ {0} /\ ChunkSize \in Nat \ {0}
  /\ Message \subseteq Nat \ {0}
  /\ Stamps \in Nat /\ Stamps >= WriteBufferSize

VARIABLES
  pc,           \* where con is in the loop of run
  dispatchPc,   \* where disp is in dispatch
  line, pos,    \* the line editor: buffer_, pos_
  argv,         \* argv_[0 .. argc_ - 1]: positions in buffer_
  buff, head, tail,   \* the write buffer
  chunk,        \* tx_chunk, as handed to transmit
  text,         \* history: the line as the user sees it
  accepted      \* history: how many bytes the write buffer took, modulo Stamps

lineVars == <<line, pos, argv, text>>
bufferVars == <<buff, head, tail, accepted>>
vars == <<taskVars, pc, dispatchPc, lineVars, bufferVars, chunk>>

Index == 0 .. LineSize - 1
Slot == 0 .. WriteBufferSize - 1

\* The storage of the line holds anything but for the first character.
ConsoleInit ==
  /\ Init
  /\ pc = "none" /\ dispatchPc = "none"
  /\ \E c \in Letter : line = [i \in Index |-> IF i = 0 THEN NUL ELSE c]
  /\ pos = 0 /\ argv = <<>> /\ text = <<>>
  /\ buff = [i \in Slot |-> 0] /\ head = 0 /\ tail = 0 /\ accepted = 0
  /\ chunk = <<>>

-----------------------------------------------------------------------------
(* line_editor.                                                            *)

append(c) ==
  IF pos >= LineSize - 1 THEN UNCHANGED <<line, pos>>
  ELSE /\ line' = [line EXCEPT ![pos] = c, ![pos + 1] = NUL]
       /\ pos' = pos + 1

backspace ==
  IF pos = 0 THEN UNCHANGED <<line, pos>>
  ELSE line' = [line EXCEPT ![pos - 1] = NUL] /\ pos' = pos - 1

clear(l) == line' = [l EXCEPT ![0] = NUL] /\ pos' = 0

-----------------------------------------------------------------------------
(* argument_parser: one turn of parse's loop finds one token.              *)

\* The first position of l from p on with a character in C.
next_in(l, p, C) == Min({i \in p .. LineSize - 1 : l[i] \in C})

\* Mutant: the token is not terminated where it is followed by another.
token_unterminated(s) ==
  LET begin == next_in(s.line, s.p, Letter \cup {NUL})
      end == next_in(s.line, begin, {Blank, NUL})
  IN  IF s.line[begin] = NUL \/ Len(s.argv) >= MaxArgs THEN s
      ELSE [line |-> s.line,
            argv |-> Append(s.argv, begin),
            p |-> IF s.line[end] = NUL THEN end ELSE end + 1]

token(s) ==
  LET begin == next_in(s.line, s.p, Letter \cup {NUL})
      end == next_in(s.line, begin, {Blank, NUL})
  IN  IF s.line[begin] = NUL \/ Len(s.argv) >= MaxArgs THEN s
      ELSE [line |-> [s.line EXCEPT ![end] = NUL],
            argv |-> Append(s.argv, begin),
            p |-> IF s.line[end] = NUL THEN end ELSE end + 1]

\* parse: the line and argv after it.
parse(l) ==
  LET s[n \in 0 .. MaxArgs] ==
        IF n = 0 THEN [line |-> l, argv |-> <<>>, p |-> 0] ELSE token(s[n - 1])
  IN  s[MaxArgs]

\* The string that starts at position p of the line buffer l.
c_str(l, p) == [i \in 1 .. next_in(l, p, {NUL}) - p |-> l[p + i - 1]]

-----------------------------------------------------------------------------
(* byte_ring_buffer.                                                       *)

size == (tail - head + WriteBufferSize) % WriteBufferSize

room == (head - tail - 1 + WriteBufferSize) % WriteBufferSize

\* push of data: what does not fit is left out.
push(data) ==
  LET to_write == Min({room, Len(data)})
      first == Min({to_write, WriteBufferSize - tail})
  IN  /\ buff' = [i \in Slot |->
                   IF i \in tail .. tail + first - 1 THEN data[i - tail + 1]
                   ELSE IF i < to_write - first THEN data[first + i + 1]
                   ELSE buff[i]]
      /\ tail' = (tail + to_write) % WriteBufferSize
      /\ accepted' = (accepted + to_write) % Stamps
      /\ UNCHANGED head

\* Mutant: a copy that wraps goes on from the same place of the data.
wrapped_copy_restarts(max_len) ==
  LET to_read == Min({size, max_len})
      first == Min({to_read, WriteBufferSize - head})
  IN  [i \in 1 .. to_read |-> IF i <= first THEN buff[head + i - 1] ELSE buff[head]]

\* What pop_front copies out.
front(max_len) ==
  LET to_read == Min({size, max_len})
      first == Min({to_read, WriteBufferSize - head})
  IN  [i \in 1 .. to_read |->
        IF i <= first THEN buff[head + i - 1] ELSE buff[i - first - 1]]

pop_front(max_len) ==
  /\ chunk' = front(max_len)
  /\ head' = (head + Min({size, max_len})) % WriteBufferSize
  /\ UNCHANGED <<buff, tail, accepted>>

-----------------------------------------------------------------------------
(* console::print, which everyone may call, through the logger or not.     *)

stamps(n) == [i \in 1 .. n |-> (accepted + i) % Stamps]

\* A message of n characters is cut to fit buff.
print(n) == push(stamps(Min({n, PrintSize - 1})))

-----------------------------------------------------------------------------
(* console::run.                                                           *)

\* main calls run, once.
CallRun ==
  /\ pc = "none"
  /\ Create(App, con)
  /\ pc' = "receive"
  /\ UNCHANGED <<dispatchPc, lineVars, bufferVars, chunk>>

at(f, counter, label) == running = f /\ counter = label

\* co_await receive: no key is there.
ReceiveSuspends ==
  /\ at(con, pc, "receive")
  /\ Wait(con)
  /\ pc' = "received"
  /\ UNCHANGED <<dispatchPc, lineVars, bufferVars, chunk>>

\* Mutant: without a key the loop starts again.
ReceiveFails_continues ==
  /\ at(con, pc, "received")
  /\ pc' = "receive"
  /\ UNCHANGED <<taskVars, dispatchPc, lineVars, bufferVars, chunk>>

\* The receive ends by timeout or error: straight to the output.
ReceiveFails ==
  /\ at(con, pc, "received")
  /\ pc' = "flush"
  /\ UNCHANGED <<taskVars, dispatchPc, lineVars, bufferVars, chunk>>

\* The receive has a key, at once or after waiting.
KeyRead == at(con, pc, "receive") \/ at(con, pc, "received")

\* Any other key is a character of the line, a NUL from the wire too.
Type(c) ==
  /\ KeyRead
  /\ append(c)
  /\ text' = IF Len(text) < LineSize - 1 THEN Append(text, c) ELSE text
  /\ pc' = "flush"
  /\ UNCHANGED <<taskVars, dispatchPc, argv, bufferVars, chunk>>

Backspace ==
  /\ KeyRead
  /\ backspace
  /\ text' = IF text = <<>> THEN text ELSE Front(text)
  /\ pc' = "flush"
  /\ UNCHANGED <<taskVars, dispatchPc, argv, bufferVars, chunk>>

\* A line with words: the coroutine dispatch is called with argc and argv.
EnterCommand ==
  /\ KeyRead
  /\ parse(line).argv # <<>>
  /\ line' = parse(line).line /\ argv' = parse(line).argv
  /\ Create(con, disp)
  /\ pc' = "dispatch"
  /\ UNCHANGED <<dispatchPc, pos, text, bufferVars, chunk>>

EnterEmpty ==
  /\ KeyRead
  /\ parse(line).argv = <<>>
  /\ argv' = <<>> /\ clear(line) /\ text' = <<>>
  /\ pc' = "flush"
  /\ UNCHANGED <<taskVars, dispatchPc, bufferVars, chunk>>

AwaitDispatch ==
  /\ at(con, pc, "dispatch")
  /\ Await(con, disp)
  /\ pc' = "dispatched" /\ dispatchPc' = "lookup"
  /\ UNCHANGED <<lineVars, bufferVars, chunk>>

Dispatched ==
  /\ at(con, pc, "dispatched")
  /\ clear(line) /\ text' = <<>>
  /\ pc' = "flush"
  /\ UNCHANGED <<taskVars, dispatchPc, argv, bufferVars, chunk>>

\* A turn of the loop that sends the output: a transmit suspends always, and
\* what becomes of it is ignored.
Flush ==
  /\ at(con, pc, "flush") /\ size # 0
  /\ pop_front(ChunkSize)
  /\ Wait(con)
  /\ UNCHANGED <<pc, dispatchPc, lineVars>>

FlushEnds ==
  /\ at(con, pc, "flush") /\ size = 0
  /\ chunk' = <<>>
  /\ Yield(con)
  /\ pc' = "receive"
  /\ UNCHANGED <<dispatchPc, lineVars, bufferVars>>

-----------------------------------------------------------------------------
(* console::dispatch.                                                      *)

\* The name is found or not; either is logged.
Lookup(n) ==
  /\ at(disp, dispatchPc, "lookup")
  /\ print(n)
  /\ dispatchPc' = IF c_str(line, argv[1]) \in Command THEN "found" ELSE "end"
  /\ UNCHANGED <<taskVars, pc, lineVars, chunk>>

CallHandler ==
  /\ at(disp, dispatchPc, "found")
  /\ Create(disp, cmd)
  /\ dispatchPc' = "call"
  /\ UNCHANGED <<pc, lineVars, bufferVars, chunk>>

AwaitHandler ==
  /\ at(disp, dispatchPc, "call")
  /\ Await(disp, cmd)
  /\ dispatchPc' = "end"
  /\ UNCHANGED <<pc, lineVars, bufferVars, chunk>>

DispatchReturns ==
  /\ at(disp, dispatchPc, "end")
  /\ Return(disp)
  /\ dispatchPc' = "none"
  /\ UNCHANGED <<pc, lineVars, bufferVars, chunk>>

-----------------------------------------------------------------------------
(* Everything else: the main loop, the handler of a command, other tasks.  *)

consoleVars == <<pc, dispatchPc, lineVars, bufferVars, chunk>>

Other == Frame \ {con, disp}

OtherStep ==
  /\ \/ RunOnce
     \/ \E f \in Frame : Expire(f) \/ Wake(f)
     \/ \E f \in Other : Yield(f) \/ Sleep(f) \/ Wait(f) \/ Return(f)
     \/ \E x \in Other \cup {App}, f \in Frame :
          \/ <<x, f>> \in Calls /\ Create(x, f)
          \/ Start(x, f) \/ StartPlain(x, f) \/ Destroy(x, f)
     \/ \E f, g \in Other : Await(f, g)
  /\ UNCHANGED consoleVars

\* A message is printed by a command, another task or the main program.
SomeonePrints(n) ==
  /\ running \in Other \cup {App}
  /\ print(n)
  /\ UNCHANGED <<taskVars, pc, dispatchPc, lineVars, chunk>>

ConsoleStep ==
  \/ CallRun
  \/ ReceiveSuspends \/ ReceiveFails
  \/ (\E c \in Letter \cup {Blank, NUL} : Type(c)) \/ Backspace
  \/ EnterCommand \/ EnterEmpty \/ AwaitDispatch \/ Dispatched
  \/ Flush \/ FlushEnds
  \/ (\E n \in Message : Lookup(n))
  \/ CallHandler \/ AwaitHandler \/ DispatchReturns

ConsoleNext == ConsoleStep \/ OtherStep \/ \E n \in Message : SomeonePrints(n)

ConsoleSpec == ConsoleInit /\ [][ConsoleNext]_vars

\* The main loop comes round to run_once; tasks that run give up control in
\* the end, and plain tasks return; the UART service answers.
ConsoleFairSpec ==
  /\ ConsoleSpec
  /\ WF_vars(ConsoleStep)
  /\ SF_vars(RunOnce /\ UNCHANGED consoleVars)
  /\ SF_vars((\E f \in Other \ Plain : Yield(f) \/ Sleep(f) \/ Wait(f) \/ Return(f))
             /\ UNCHANGED consoleVars)
  /\ WF_vars((\E f \in Plain : Return(f)) /\ UNCHANGED consoleVars)
  /\ WF_vars(Wake(con) /\ UNCHANGED consoleVars)

-----------------------------------------------------------------------------
\* The characters of s from the a-th to the b-th are a word: it is between blanks.
IsWord(s, a, b) ==
  /\ a <= b /\ \A i \in a .. b : s[i] # Blank
  /\ a > 1 => s[a - 1] = Blank
  /\ b < Len(s) => s[b + 1] = Blank

\* The arguments at the positions args of the line l are the first words of s:
\* each is a word, in the order of the text, and none of those before the last
\* is left out, nor any at all if there are fewer than the parser takes.
FirstWords(l, args, s) ==
  /\ Len(args) <= MaxArgs
  /\ \A k \in 1 .. Len(args) : \E a, b \in 1 .. Len(s) :
       IsWord(s, a, b) /\ args[k] = a - 1 /\ c_str(l, args[k]) = SubSeq(s, a, b)
  /\ \A j, k \in 1 .. Len(args) : j < k => args[j] < args[k]
  /\ \A a, b \in 1 .. Len(s) : IsWord(s, a, b) =>
       \/ \E k \in 1 .. Len(args) : args[k] = a - 1
       \/ Len(args) = MaxArgs /\ \A k \in 1 .. Len(args) : args[k] < a - 1

\* What C takes the text s for: it ends before the first NUL.
string(s) ==
  SubSeq(s, 1, Min({i \in 1 .. Len(s) + 1 : i = Len(s) + 1 \/ s[i] = NUL}) - 1)

\* While a command is dispatched and runs, however long that takes and whatever
\* other tasks do, its arguments are the first words of the line typed, edited
\* as the user saw it, up to the first NUL in it: what was typed behind a NUL
\* is lost.  argv points into the editor's buffer.
ArgumentsAsTyped == Exists(disp) => FirstWords(line, argv, string(text))

\* What the write buffer holds, oldest first.
content == [i \in 1 .. size |-> buff[(head + i - 1) % WriteBufferSize]]

\* The messages leave for the UART in the order they were printed, each byte
\* once; of a message longer than print's buffer or than the room there is,
\* the beginning is kept, and as much of it as fits.
OutputInOrder ==
  [][\/ UNCHANGED content /\ chunk' \in {chunk, <<>>}
     \/ /\ UNCHANGED chunk
        /\ \E n \in Message :
             content' = content \o stamps(Min({n, PrintSize - 1,
                                               WriteBufferSize - 1 - Len(content)}))
     \/ content = chunk' \o content' /\ chunk' # <<>>]_<<content, chunk>>

\* con waits for a transmit.
sending == pc = "flush" /\ point[con] = "wait"

\* What was printed is handed to the UART, though others keep printing, unless
\* a command runs or the console is destroyed: a command's output waits for
\* the command to end.
OutputDrains ==
  started[con] /\ size # 0 /\ ~Exists(disp) ~> sending \/ Exists(disp) \/ ~Exists(con)
=============================================================================
