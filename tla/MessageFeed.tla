---------------------------- MODULE MessageFeed -----------------------------
(***************************************************************************)
(* The log-trigger half of the custom data feed: message emitters on       *)
(* several chains, and the workflow that is started by their logs.         *)
(*                                                                         *)
(* The trigger asks for logs at confidence LATEST, so a block that has     *)
(* started an execution may still be reorganised away.  The execution      *)
(* takes the emitter and the block number from the log and reads the       *)
(* emitter's last message from the contract at that block - always on the  *)
(* first configured chain, whichever chain the log came from.              *)
(***************************************************************************)
EXTENDS Naturals, Sequences

CONSTANTS
  MessageChains, \* config.EVMs; a trigger is registered for each of them
  FirstChain,    \* config.EVMs[0]
  Emitters,      \* senders of messages
  Messages,
  NoMessage,     \* the empty string
  MaxTime,       \* block timestamps are 0 .. MaxTime
  MaxBlocks,     \* bound on the height of a chain
  MaxLostBlocks  \* bound on blocks lost in reorganisations

Times == 0 .. MaxTime

ASSUME MessageAssumption ==
  /\ FirstChain \in MessageChains
  /\ NoMessage \notin Messages
  /\ MaxTime \in Nat /\ MaxLostBlocks \in Nat
  /\ MaxBlocks \in Nat \ {0}

VARIABLES
  blocks,    \* per chain: the state after each block, the last one still open
  lost,      \* blocks lost so far (bounds the model)
  log,       \* the log that started the execution under way
  answer     \* what the last execution returned

messageVars == <<blocks, lost, log, answer>>

\* The storage of MessageEmitter (s_messages, s_lastMessage) after a block, and
\* the messages emitted in it.
Blocks ==
  [time : Times,
   stored : [Emitters \X Times -> Messages \union {NoMessage}],
   last : [Emitters -> Messages \union {NoMessage}],
   logs : SUBSET (Emitters \X Messages)]

\* A MessageEmitted log; its block as it was when the trigger fired.
Logs == [chain : MessageChains, number : 1 .. MaxBlocks, block : Blocks,
         emitter : Emitters, message : Messages]
NoLog == [chain |-> NoMessage]
NoAnswer == [message |-> NoMessage]
\* kept: the block of the log was still the one that started the execution.
Answers == [chain : MessageChains, logged : Messages, message : Messages, kept : BOOLEAN]

MessageTypeOK ==
  /\ blocks \in [MessageChains -> Seq(Blocks)]
  /\ \A c \in MessageChains : Len(blocks[c]) \in 1 .. MaxBlocks
  /\ lost \in 0 .. MaxLostBlocks
  /\ log \in Logs \union {NoLog}
  /\ answer \in Answers \union {NoAnswer}

EmptyBlock ==
  [time |-> 0, stored |-> [key \in Emitters \X Times |-> NoMessage],
   last |-> [e \in Emitters |-> NoMessage], logs |-> {}]

MessageInit ==
  /\ blocks = [c \in MessageChains |-> <<EmptyBlock>>]
  /\ lost = 0
  /\ log = NoLog
  /\ answer = NoAnswer

Open(c) == blocks[c][Len(blocks[c])]

-----------------------------------------------------------------------------
(* The chains.                                                             *)

\* A contract that lets a sender emit again in the same block.
MayEmit_Always(c, e) == TRUE

\* A sender may emit only once per block timestamp.
MayEmit(c, e) == Open(c).stored[<<e, Open(c).time>>] = NoMessage

EmitMessage(c, e, m) ==
  LET block == Open(c) IN
  /\ MayEmit(c, e)
  /\ blocks' = [blocks EXCEPT ![c][Len(blocks[c])] =
       [time |-> block.time,
        stored |-> [block.stored EXCEPT ![<<e, block.time>>] = m],
        last |-> [block.last EXCEPT ![e] = m],
        logs |-> block.logs \union {<<e, m>>}]]
  /\ UNCHANGED <<lost, log, answer>>

\* The open block is sealed and the next one opened; on some chains several
\* blocks have the same timestamp.
SealBlock(c, time) ==
  /\ Len(blocks[c]) < MaxBlocks
  /\ time >= Open(c).time
  /\ blocks' = [blocks EXCEPT ![c] = Append(@, [Open(c) EXCEPT !.time = time, !.logs = {}])]
  /\ UNCHANGED <<lost, log, answer>>

\* The last sealed block is lost, and the one after it starts afresh.
LoseBlock(c, time) ==
  LET kept == SubSeq(blocks[c], 1, Len(blocks[c]) - 2) IN
  /\ lost < MaxLostBlocks
  /\ Len(blocks[c]) > 2
  /\ time >= kept[Len(kept)].time
  /\ lost' = lost + 1
  /\ blocks' = [blocks EXCEPT
       ![c] = Append(kept, [kept[Len(kept)] EXCEPT !.time = time, !.logs = {}])]
  /\ UNCHANGED <<log, answer>>

Reverted == "reverted"

\* getMessage requires the stored message to be EMPTY, contrary to the text of
\* its error.
GetMessage(block, e, time) ==
  IF block.stored[<<e, time>>] = NoMessage THEN block.stored[<<e, time>>] ELSE Reverted

\* getLastMessage reverts without a message.
GetLastMessage(block, e) == IF block.last[e] # NoMessage THEN block.last[e] ELSE Reverted

-----------------------------------------------------------------------------
(* One execution of onLogTrigger.                                          *)

\* A log of a sealed block starts an execution.
TriggerFires(c, number, e, m) ==
  /\ log = NoLog
  /\ number < Len(blocks[c])
  /\ <<e, m>> \in blocks[c][number].logs
  /\ log' = [chain |-> c, number |-> number, block |-> blocks[c][number],
             emitter |-> e, message |-> m]
  /\ UNCHANGED <<blocks, lost, answer>>

\* The contract is read at the log's block.
ReadAt == log.number

\* The workflow returns what the contract of the FIRST chain answers.
ReadContract ==
  LET m == GetLastMessage(blocks[FirstChain][ReadAt], log.emitter) IN
  /\ log # NoLog
  /\ ReadAt <= Len(blocks[FirstChain])
  /\ m # Reverted
  /\ answer' = [chain |-> log.chain, logged |-> log.message, message |-> m,
                kept |-> /\ log.number < Len(blocks[log.chain])
                         /\ blocks[log.chain][log.number] = log.block]
  /\ log' = NoLog
  /\ UNCHANGED <<blocks, lost>>

\* The block is not there, the emitter has no message in it, or the call fails.
ReadFails ==
  /\ log # NoLog
  /\ log' = NoLog
  /\ answer' = NoAnswer
  /\ UNCHANGED <<blocks, lost>>

OnLogTrigger ==
  \/ \E c \in MessageChains, e \in Emitters, m \in Messages, number \in 1 .. MaxBlocks :
       TriggerFires(c, number, e, m)
  \/ ReadContract
  \/ ReadFails

Emission ==
  \E c \in MessageChains :
    \/ \E e \in Emitters, m \in Messages : EmitMessage(c, e, m)
    \/ \E time \in Times : SealBlock(c, time) \/ LoseBlock(c, time)

MessageNext == OnLogTrigger \/ Emission

MessageSpec == MessageInit /\ [][MessageNext]_messageVars

-----------------------------------------------------------------------------
(* Properties.                                                             *)

\* The contract confirms the log: an execution started by a log of the first
\* chain returns that log's message, unless the block was lost meanwhile.  It
\* rests on the rule of one message per sender and timestamp, without which a
\* later message of the block would be returned.
AnswerIsTheLogs ==
  answer # NoAnswer /\ answer.chain = FirstChain /\ answer.kept =>
    answer.message = answer.logged

\* Each message that a log announces can be read back with the emitter and the
\* timestamp of that log, as the text of getMessage's error says.  Refuted by
\* the first message.
LoggedMessagesAreReadable ==
  \A c \in MessageChains : \A number \in 1 .. Len(blocks[c]) - 1 :
    \A entry \in blocks[c][number].logs :
      GetMessage(blocks[c][number], entry[1], blocks[c][number].time) = entry[2]

=============================================================================
