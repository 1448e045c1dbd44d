----------------------------- MODULE ChatMessages -----------------------------
(***************************************************************************)
(* The messages of a chat: sent, delivered, read, edited, deleted, pinned,   *)
(* forwarded, and the files attached to them (app/api/chat.py).              *)
(*                                                                         *)
(* Requests take no lock.  Reads, deliveries and reactions have a unique key *)
(* per message and user: of two requests that insert the same row, the       *)
(* second fails as a whole.                                                  *)
(***************************************************************************)
EXTENDS Integers, FiniteSets, Sequences

CONSTANTS
    Writer,          \* members of the chat
    Attached,        \* uploaded files
    MaxMessages,     \* bound: messages, numbered as they are sent
    PageSize,        \* limit of get_messages (100)
    MarkLimit,       \* messages of a page it marks as read (50)
    MaxPins,         \* pinned messages a chat may have (3)
    Posting2,        \* slots of requests that overlap others
    MaxPosts         \* bound: requests handled

ASSUME ChatMessagesAssumption ==
    /\ IsFiniteSet(Posting2)
    /\ {MaxMessages, MaxPosts} \subseteq Nat
    /\ {PageSize, MarkLimit, MaxPins} \subseteq Nat \ {0}

VARIABLES
    messages,        \* chat_messages in the order of their ids
    seen,            \* message_reads
    delivered,       \* message_deliveries: delivered_at alone, or read_at too
    reacted,         \* message_reactions
    files,           \* message_attachments: who uploaded one, and its message
    posting,         \* the view an overlapping request has taken
    moved,           \* history: messages whose files an overlapping request took
    posts            \* how many requests were handled

chatVars == <<messages, seen, delivered, reacted, files, posting, moved, posts>>

MessageIds == DOMAIN messages
Ids == 1..MaxMessages
MessageRow == [sender : Writer, text : BOOLEAN, parent : 0..MaxMessages, age : {"new", "15min", "60min"},
               deleted : BOOLEAN, edited : BOOLEAN, pinned : BOOLEAN, mentions : SUBSET Writer]
DeliveryStatus == {"none", "delivered", "read"}
FileRow == [owner : Writer, message : 0..MaxMessages]
NoFile == [message |-> -1]

MessagesInit ==
    /\ messages = <<>>
    /\ seen = {}
    /\ delivered = [x \in Ids \X Writer |-> "none"]
    /\ reacted = {}
    /\ files = [f \in Attached |-> NoFile]
    /\ posting = [r \in Posting2 |-> <<>>]
    /\ moved = {}
    /\ posts = 0

Posted == [messages |-> messages, seen |-> seen, delivered |-> delivered, files |-> files]

-----------------------------------------------------------------------------
UploadChatFile(u, f) ==
    /\ files[f] = NoFile
    /\ files' = [files EXCEPT ![f] = [owner |-> u, message |-> 0]]
    /\ UNCHANGED <<messages, seen, delivered, reacted, moved>>

\* Mutant: a file that already has a message can be attached again.
AttachableAny(u, f, view) == view.files[f] # NoFile /\ view.files[f].owner = u
Attachable(u, f, view) == view.files[f] = [owner |-> u, message |-> 0]
NewMessage(u, text, parent, mentions) ==
    [sender |-> u, text |-> text, parent |-> parent, age |-> "new",
     deleted |-> FALSE, edited |-> FALSE, pinned |-> FALSE, mentions |-> mentions]
\* A message has text or files; a reply's parent and who is mentioned are in the
\* chat.  Its sender has read it.
SendMessage(u, text, parent, mentions, with, view) ==
    /\ text \/ with # {}
    /\ parent \in {0} \cup DOMAIN view.messages
    /\ \A f \in with : Attachable(u, f, view)
    /\ Len(messages) < MaxMessages
    /\ LET m == Len(messages) + 1 IN
       /\ messages' = Append(messages, NewMessage(u, text, parent, mentions))
       /\ files' = [f \in Attached |-> IF f \in with THEN [files[f] EXCEPT !.message = m] ELSE files[f]]
       /\ seen' = seen \cup {<<m, u>>}
    /\ moved' = moved \cup {files[f].message : f \in {g \in with : files[g] # view.files[g]}}
    /\ UNCHANGED <<delivered, reacted>>
\* A copy sent to the same chat.  It has the original's text, or copies of its
\* files in new rows: text stands for both.
ForwardMessage(u, m, view) ==
    /\ m \in DOMAIN view.messages /\ ~view.messages[m].deleted
    /\ Len(messages) < MaxMessages
    /\ messages' = Append(messages, NewMessage(u, TRUE, 0, {}))
    /\ seen' = seen \cup {<<Len(messages) + 1, u>>}
    /\ UNCHANGED <<delivered, reacted, files, moved>>

MarkDelivered(u, m, view) ==
    /\ m \in DOMAIN view.messages /\ view.messages[m].sender # u
    /\ \/ view.delivered[<<m, u>>] # "none" /\ UNCHANGED delivered
       \/ /\ view.delivered[<<m, u>>] = "none" /\ delivered[<<m, u>>] = "none"
          /\ delivered' = [delivered EXCEPT ![<<m, u>>] = "delivered"]
    /\ UNCHANGED <<messages, seen, reacted, files, moved>>

\* The newest messages, and of the others' among them the ones that are marked.
Page(view) == {m \in DOMAIN view.messages : m > Len(view.messages) - PageSize}
FromOthers(u, view) == {m \in Page(view) : view.messages[m].sender # u}
\* Mutant: the whole page is marked as read, and its first part as delivered.
MarkedAll(u, view) == FromOthers(u, view)
Marked(u, view) ==
    {m \in FromOthers(u, view) : Cardinality({n \in FromOthers(u, view) : n > m}) < MarkLimit}
GetMessages(u, view) ==
    LET toDeliver == {m \in FromOthers(u, view) :
                         Cardinality({n \in FromOthers(u, view) : n > m}) < MarkLimit}
        inserted == {m \in toDeliver : view.delivered[<<m, u>>] = "none"}
        newReads == {m \in Marked(u, view) : <<m, u>> \notin view.seen}
    IN  /\ toDeliver # {}
        /\ \A m \in inserted : delivered[<<m, u>>] = "none"
        /\ \A m \in newReads : <<m, u>> \notin seen
        /\ delivered' = [x \in Ids \X Writer |->
               IF x[2] = u /\ x[1] \in toDeliver THEN "read" ELSE delivered[x]]
        /\ seen' = seen \cup (newReads \X {u})
        /\ UNCHANGED <<messages, reacted, files, moved>>

-----------------------------------------------------------------------------
\* Time passes: a message can be edited for 15 minutes, deleted for an hour.
Grow(m) ==
    /\ m \in MessageIds /\ messages[m].age # "60min"
    /\ messages' = [messages EXCEPT ![m].age = IF @ = "new" THEN "15min" ELSE "60min"]
    /\ UNCHANGED <<seen, delivered, reacted, files, moved>>
EditMessage(m) ==
    /\ m \in MessageIds /\ messages[m].age = "new"
    /\ messages' = [messages EXCEPT ![m].text = TRUE, ![m].edited = TRUE]
    /\ UNCHANGED <<seen, delivered, reacted, files, moved>>
DeleteMessage(m) ==
    /\ m \in MessageIds /\ messages[m].age # "60min"
    /\ messages' = [messages EXCEPT ![m].deleted = TRUE]
    /\ UNCHANGED <<seen, delivered, reacted, files, moved>>

Pinned(view) == {m \in DOMAIN view.messages : view.messages[m].pinned}
Pinnable(view) == Cardinality(Pinned(view)) < MaxPins
PinMessage(m, view) ==
    /\ m \in DOMAIN view.messages /\ ~view.messages[m].pinned
    /\ Pinnable(view)
    /\ messages' = [messages EXCEPT ![m].pinned = TRUE]
    /\ UNCHANGED <<seen, delivered, reacted, files, moved>>
UnpinMessage(m) ==
    /\ m \in MessageIds /\ messages[m].pinned
    /\ messages' = [messages EXCEPT ![m].pinned = FALSE]
    /\ UNCHANGED <<seen, delivered, reacted, files, moved>>
\* The same reaction a second time takes it back.
ReactMessage(u, m) ==
    /\ m \in MessageIds
    /\ reacted' = IF <<m, u>> \in reacted THEN reacted \ {<<m, u>>} ELSE reacted \cup {<<m, u>>}
    /\ UNCHANGED <<messages, seen, delivered, files, moved>>

-----------------------------------------------------------------------------
Post(view) ==
    \/ \E u \in Writer :
        \/ \E text \in BOOLEAN, parent \in 0..MaxMessages, with \in SUBSET Attached :
            SendMessage(u, text, parent, {}, with, view)
        \/ GetMessages(u, view)
        \/ \E m \in Ids : MarkDelivered(u, m, view) \/ ForwardMessage(u, m, view)
    \/ \E m \in Ids : PinMessage(m, view)
CountPost == posts < MaxPosts /\ posts' = posts + 1
BeginPost(r) ==
    /\ posting[r] = <<>> /\ posts < MaxPosts
    /\ posting' = [posting EXCEPT ![r] = <<Posted>>]
    /\ UNCHANGED <<messages, seen, delivered, reacted, files, moved, posts>>
CommitPost(r) ==
    /\ posting[r] # <<>>
    /\ Post(posting[r][1])
    /\ posting' = [posting EXCEPT ![r] = <<>>]
    /\ CountPost

MessagesNext ==
    \/ Post(Posted) /\ UNCHANGED posting /\ CountPost
    \/ /\ \/ \E u \in Writer, f \in Attached : UploadChatFile(u, f)
          \/ \E u \in Writer : SendMessage(u, TRUE, 0, Writer \ {u}, {}, Posted)
          \/ \E m \in Ids : Grow(m) \/ EditMessage(m) \/ DeleteMessage(m) \/ UnpinMessage(m)
          \/ \E u \in Writer, m \in Ids : ReactMessage(u, m)
       /\ UNCHANGED posting /\ CountPost
    \/ \E r \in Posting2 : BeginPost(r) \/ CommitPost(r)
MessagesSpec == MessagesInit /\ [][MessagesNext]_chatVars

MessagesTypeOK ==
    /\ \A m \in MessageIds : messages[m] \in MessageRow
    /\ seen \subseteq Ids \X Writer /\ reacted \subseteq Ids \X Writer
    /\ delivered \in [Ids \X Writer -> DeliveryStatus]
    /\ \A f \in Attached : files[f] \in {NoFile} \cup FileRow

-----------------------------------------------------------------------------
(* What the members see.                                                     *)

\* unread_count, and the counts of get_enhanced_chat_list
Unread(u) == {m \in MessageIds : messages[m].sender # u /\ ~messages[m].deleted /\ <<m, u>> \notin seen}
\* get_messages, get_message_reads
IsRead(m) == \E u \in Writer : delivered[<<m, u>>] = "read"
IsDelivered(m) == \E u \in Writer : delivered[<<m, u>>] # "none"
ReadBy(m) == {u \in Writer : <<m, u>> \in seen}
ShownText(m) == ~messages[m].deleted /\ messages[m].text
Replies(m) == {n \in MessageIds : messages[n].parent = m}
\* get_mentions shows the text of deleted messages too
Mentions(u) == {m \in MessageIds : u \in messages[m].mentions}

\* The two ledgers of reading agree, whoever overlaps: a message is read in
\* message_deliveries exactly by the others in message_reads, so what the unread
\* count leaves out was delivered, and a ticked message has a reader.
ReadsAgree ==
    \A m \in MessageIds :
        /\ \A u \in Writer : u # messages[m].sender => (delivered[<<m, u>>] = "read" <=> u \in ReadBy(m))
        /\ IsRead(m) <=> ReadBy(m) # {messages[m].sender}
        /\ (\A u \in Writer : u # messages[m].sender => m \notin Unread(u)) /\ ~messages[m].deleted
               => IsDelivered(m) \/ Writer = {messages[m].sender}

\* Overlapping requests can pin more messages than the limit, but no more than one
\* each; and every message that is shown has text or a file, unless an overlapping
\* request took its file.
MessagesStand ==
    /\ Cardinality(Pinned(Posted)) <= MaxPins + Cardinality(Posting2)
    /\ \A m \in MessageIds \ moved :
        ShownText(m) \/ messages[m].deleted \/ \E f \in Attached : files[f] # NoFile /\ files[f].message = m
    /\ \A m \in MessageIds : \A n \in Replies(m) : n > m
    /\ \A u \in Writer : \A m \in Mentions(u) : u # messages[m].sender
=============================================================================
