------------------------------- MODULE ChatState -------------------------------
(***************************************************************************)
(* What the participants of a conversation share besides its messages:     *)
(* the conversation's own row, reactions, and how far a user has read.     *)
(* Each change is written, and then a sync event recorded for every        *)
(* participant, without a client_event_id and without a transaction.       *)
(* There is one conversation, with two fields, and one reaction.           *)
(***************************************************************************)
EXTENDS Requests

CONSTANTS
  Fields,        \* the fields of a conversation that may be changed
  Wordings,      \* what a field may hold
  Messages       \* the messages of the conversation

VARIABLES
  conversation,  \* conversations: the fields
  reaction,      \* message_reactions: is the reaction there
  lastRead       \* conversation_read_states of the user

chatVars == <<conversation, reaction, lastRead>>

ConversationRow == <<"conversation">>
Reaction        == <<"reaction">>
ReadState       == <<"read-state">>
ChatRows        == {ConversationRow, Reaction, ReadState}

\* Someone may have reacted already.
ChatInit(start) ==
  /\ conversation \in [Fields -> {CHOOSE c \in Wordings : TRUE}]
  /\ reaction = start.reaction
  /\ lastRead = None

ChatRow(row) == CASE row = ConversationRow -> conversation
                  [] row = Reaction        -> reaction
                  [] OTHER                 -> lastRead

\* An administrator's change of one field begins with the whole row.
BeginUpdateConversation(w) ==
  /\ \E field \in Fields, content \in Wordings :
       BeginRead(w, [Request EXCEPT !.op = "retitle", !.type = field, !.word = content,
                                    !.row = ConversationRow], conversation, "save-conversation")
  /\ UNCHANGED <<chatVars, notice>>

Changed(w) == [copy[w] EXCEPT ![req[w].type] = req[w].word]

UpdateConversation(w) ==
  /\ pc[w] = "save-conversation"
  /\ conversation' = Changed(w)
  /\ SaveThen(w, "announce", ConversationRow, conversation # copy[w])
  /\ UNCHANGED <<reaction, lastRead, notice>>

\* The event carries the row that was saved.
RecordConversationSyncEvents(w) ==
  /\ pc[w] = "announce" /\ req[w].row = ConversationRow
  /\ Tell(w, Changed(w), Changed(w) # conversation)
  /\ Answer(w)
  /\ UNCHANGED chatVars

\* The marker is written whatever it was: it may go back.
MarkConversationRead(w) ==
  /\ \E m \in Messages :
       /\ BeginRead(w, [Request EXCEPT !.op = "read-state", !.row = ReadState], m, "announce")
       /\ lastRead' = m
  /\ UNCHANGED <<conversation, reaction, notice>>

\* FirstOrCreate looks for the reaction first.
BeginAddReaction(w) ==
  /\ Begin(w, [Request EXCEPT !.op = "react", !.row = Reaction],
           IF reaction THEN "get-reaction" ELSE "react")
  /\ UNCHANGED <<chatVars, notice>>

\* The reaction is unique: the second of two attempts fails.
AddReaction(w) ==
  /\ pc[w] = "react"
  /\ reaction' = TRUE
  /\ IF reaction THEN Answer(w) ELSE Goto(w, "get-reaction")
  /\ UNCHANGED <<conversation, lastRead, notice>>

\* A reaction that was removed meanwhile is an error.
GetReaction(w) ==
  /\ pc[w] = "get-reaction"
  /\ IF reaction THEN Keep(w, TRUE, "announce") ELSE Answer(w)
  /\ UNCHANGED <<chatVars, notice>>

\* To remove none is no error, and nothing is told.
BeginRemoveReaction(w) ==
  /\ reaction
  /\ Begin(w, [Request EXCEPT !.op = "unreact", !.row = Reaction], "unreact")
  /\ UNCHANGED <<chatVars, notice>>

RemoveReaction(w) ==
  /\ pc[w] = "unreact"
  /\ reaction' = FALSE
  /\ Keep(w, FALSE, "announce")
  /\ UNCHANGED <<conversation, lastRead, notice>>

RecordReactionSyncEvents(w) ==
  /\ pc[w] = "announce" /\ req[w].row = Reaction
  /\ Tell(w, copy[w], copy[w] # reaction)
  /\ Answer(w)
  /\ UNCHANGED chatVars

RecordConversationReadSyncEvent(w) ==
  /\ pc[w] = "announce" /\ req[w].row = ReadState
  /\ Tell(w, copy[w], copy[w] # lastRead)
  /\ Answer(w)
  /\ UNCHANGED chatVars

ChatNext ==
  \E w \in Workers :
    \/ BeginUpdateConversation(w) \/ UpdateConversation(w) \/ RecordConversationSyncEvents(w)
    \/ MarkConversationRead(w) \/ RecordConversationReadSyncEvent(w)
    \/ BeginAddReaction(w) \/ AddReaction(w) \/ GetReaction(w) \/ BeginRemoveReaction(w)
    \/ RemoveReaction(w) \/ RecordReactionSyncEvents(w)
=============================================================================
