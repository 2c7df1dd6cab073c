-------------------------------- MODULE Chat --------------------------------
(***************************************************************************)
(* The conversation of two accounts: the requests of app.py that read, send,  *)
(* recall, delete, pin and clear messages, and the open page of each (its       *)
(* cursors are kept by static/app.js). A request reads at its beginning and     *)
(* commits at its end, in its own time; each page has one running at a time.    *)
(* Bodies, images, remarks and notifications are left out.                     *)
(***************************************************************************)
EXTENDS Integers, FiniteSets

CONSTANTS People,       \* the two accounts
          PageSize,     \* 100
          Overlap,      \* 5 s: how far the recall cursor is taken back
          Longest,      \* bound: how long a request lasts
          Retention,    \* CHAT_RETENTION_DAYS
          Does,         \* bound: what each account does in an instance
          MaxPosts, MaxChat \* bounds

ASSUME ChatAssumption == /\ Cardinality(People) = 2 /\ Longest \in Nat /\ 2 * Longest < Overlap
                         /\ {PageSize, Overlap, Retention} \subseteq Nat \ {0}

VARIABLES chatTime,
          lastId,      \* the id the database gave last
          posts,       \* the committed rows of chat_message
          views,       \* each account's ChatViewState of the other
          marks,       \* each account's ChatMessagePreference rows
          requests,    \* the running request of each page
          pages,       \* what each page shows, and its cursors
          served       \* history: what each account's pages were ever given

chatVars == <<chatTime, lastId, posts, views, marks, requests, pages, served>>

NoRequest == [kind |-> "none"]
Blank == [shown |-> [i \in {} |-> FALSE], last |-> 0, cursor |-> 0]
ChatInit ==
  /\ chatTime = 1 /\ lastId = 0 /\ posts = [i \in {} |-> 0] /\ requests = [p \in People |-> NoRequest]
  /\ views = [p \in People |-> [read |-> 0, cleared |-> 0]]
  /\ marks = [p \in People |-> [hidden |-> {}, pinned |-> {}]]
  /\ pages = [p \in People |-> Blank] /\ served = [p \in People |-> {}]

Overlaid(f, g) == [i \in DOMAIN f \cup DOMAIN g |-> IF i \in DOMAIN g THEN g[i] ELSE f[i]]
Highest(S, least) == CHOOSE i \in S \cup {least} : \A j \in S \cup {least} : j <= i
Newest(S, n) == {i \in S : Cardinality({j \in S : j > i}) < n}
Oldest(S, n) == {i \in S : Cardinality({j \in S : j < i}) < n}
Starts(p, request) == /\ requests[p] = NoRequest /\ request.kind \in Does[p]
                      /\ requests' = [requests EXCEPT ![p] = request]
EndRequest(p, kind) == /\ requests[p].kind = kind
                       /\ requests' = [requests EXCEPT ![p] = NoRequest]
Recalled(post) == post.recalled # 0

-----------------------------------------------------------------------------
\* chat_messages_api. Its transaction reads what is committed when the request begins.
StartRead(p) ==
  /\ Starts(p, [kind |-> "read", at |-> chatTime, posts |-> posts, view |-> views[p],
                hidden |-> marks[p].hidden])
  /\ UNCHANGED <<chatTime, lastId, posts, views, marks, pages, served>>

Visible(p) ==
  LET seen == requests[p] IN
  {i \in DOMAIN seen.posts : /\ i > seen.view.cleared /\ i \notin seen.hidden
                             /\ seen.posts[i].at > chatTime - Retention}
\* The rows of a first page, of what follows the cursor, of what precedes the page, or
\* around one that a message of the page quotes.
Preceding(S, i, n) == Newest({j \in S : j < i}, n)
Following(S, i, n) == Oldest({j \in S : j > i}, n)
FirstPage(p) == Newest(Visible(p), PageSize)
Around(p, i) == Preceding(Visible(p), i, (PageSize - 1) \div 2) \cup {i}
                  \cup Following(Visible(p), i, PageSize \div 2)
RowSets(p, mode) ==
  LET shown == DOMAIN pages[p].shown
  IN CASE mode = "initial" -> {FirstPage(p)}
       [] mode = "newer"   -> {IF pages[p].last = 0 THEN FirstPage(p)
                               ELSE Following(Visible(p), pages[p].last, PageSize)}
       [] mode = "older"   -> {IF shown = {} THEN FirstPage(p)
                               ELSE Preceding(Visible(p), CHOOSE i \in shown : \A j \in shown : i <= j,
                                              PageSize)}
       [] mode = "around"  -> {Around(p, i) : i \in {v \in Visible(p) : \E j \in shown : v < j}}

\* "a recall in the same second as the prior poll can never be skipped"
FromCursor(p) == pages[p].cursor
FromOverlap(p) == pages[p].cursor - Overlap
RecalledRows(p, began) ==
  {i \in Visible(p) : LET r == requests[p].posts[i].recalled
                      IN pages[p].cursor # 0 /\ r # 0 /\ FromOverlap(p) < r /\ r <= began}

\* What was not read yet and is given now counts as read, and all before it.
Delivered(p, rows) == {i \in rows : /\ requests[p].posts[i].from # p
                                    /\ i > requests[p].view.read}
ReadThrough(p, rows) == Highest(Delivered(p, rows), requests[p].view.read)
NowRead(p, rows) ==
  [i \in DOMAIN posts |->
     IF posts[i].from # p /\ requests[p].view.read < i /\ i <= ReadThrough(p, rows)
     THEN [posts[i] EXCEPT !.read = TRUE] ELSE posts[i]]

\* loadChatMessages: the answer is shown, or lost; what was recalled is replaced.
Shown(p, rows) == [i \in rows |-> Recalled(requests[p].posts[i])]
PageAfter(p, mode, rows, began) ==
  LET page == pages[p]
      fresh == mode \in {"initial", "around"} \/ (mode = "newer" /\ page.last = 0)
      added == IF fresh THEN Shown(p, rows) ELSE Overlaid(page.shown, Shown(p, rows))
  IN [shown |-> [i \in DOMAIN added |-> added[i] \/ i \in RecalledRows(p, began)],
      last |-> IF fresh THEN Highest(rows, 0)
               ELSE IF mode = "newer" THEN Highest(rows, page.last) ELSE page.last,
      cursor |-> Highest({began}, page.cursor)]

FinishRead(p) ==
  /\ EndRequest(p, "read")
  /\ \E mode \in {"initial", "newer", "older", "around"}, began \in requests[p].at .. chatTime :
    \E rows \in RowSets(p, mode) :
    /\ posts' = IF Delivered(p, rows) = {} THEN posts ELSE NowRead(p, rows)
    /\ views' = IF Delivered(p, rows) = {} THEN views
                ELSE [views EXCEPT ![p].read = ReadThrough(p, rows)]
    /\ pages' \in {pages, [pages EXCEPT ![p] = PageAfter(p, mode, rows, began)]}
    /\ served' = [served EXCEPT ![p] = @ \cup rows]
  /\ UNCHANGED <<chatTime, lastId, marks>>

\* selectChatPeer: the conversation is opened again, from the beginning.
OpenPage(p) == /\ requests[p] = NoRequest /\ pages[p] # Blank /\ pages' = [pages EXCEPT ![p] = Blank]
               /\ UNCHANGED <<chatTime, lastId, posts, views, marks, requests, served>>

-----------------------------------------------------------------------------
\* send_chat_message_api: the row has its id when it is flushed; an image is encrypted
\* and stored before the commit, which may fail. The page shows what was sent.
StartSend(p) ==
  /\ lastId < MaxPosts /\ lastId' = lastId + 1
  /\ Starts(p, [kind |-> "send", at |-> chatTime, id |-> lastId + 1])
  /\ UNCHANGED <<chatTime, posts, views, marks, pages, served>>

FinishSend(p) ==
  LET id == requests[p].id
      sent == Overlaid(posts, [i \in {id} |-> [from |-> p, at |-> requests[p].at, recalled |-> 0,
                                               read |-> FALSE]])
      page == [pages[p] EXCEPT !.shown = Overlaid(@, [i \in {id} |-> FALSE]), !.last = Highest({id}, @)]
  IN /\ EndRequest(p, "send")
     /\ \/ posts' = sent /\ pages' \in {pages, [pages EXCEPT ![p] = page]}
        \/ UNCHANGED <<posts, pages>>
     /\ UNCHANGED <<chatTime, lastId, views, marks, served>>

\* recall_chat_message: stamped when the handler comes to it, visible when it commits. It
\* unhides and unpins the message for both.
StartRecall(p) ==
  /\ \E i \in DOMAIN posts : posts[i].from = p /\ ~ Recalled(posts[i])
                             /\ Starts(p, [kind |-> "recall", at |-> chatTime, id |-> i])
  /\ UNCHANGED <<chatTime, lastId, posts, views, marks, pages, served>>
FinishRecall(p) ==
  LET id == requests[p].id IN
  /\ EndRequest(p, "recall")
  /\ IF id \in DOMAIN posts
     THEN /\ posts' = [posts EXCEPT ![id].recalled = requests[p].at]
          /\ marks' = [q \in People |-> [hidden |-> marks[q].hidden \ {id},
                                         pinned |-> marks[q].pinned \ {id}]]
          /\ pages' \in {pages, [pages EXCEPT ![p].shown =
                [i \in DOMAIN @ |-> @[i] \/ i = id]]}
     ELSE UNCHANGED <<posts, marks, pages>>
  /\ UNCHANGED <<chatTime, lastId, views, served>>

\* delete_chat_message_api for oneself, pin_chat_message_api, clear_chat_conversation_api.
Without(f, S) == [i \in DOMAIN f \ S |-> f[i]]
Hide(p) ==
  \E i \in DOMAIN posts :
    /\ marks' = [marks EXCEPT ![p] = [hidden |-> @.hidden \cup {i}, pinned |-> @.pinned \ {i}]]
    /\ pages' = [pages EXCEPT ![p].shown = Without(@, {i})]
    /\ UNCHANGED <<posts, views>>
Pin(p) ==
  \E i \in DOMAIN posts :
    /\ ~ Recalled(posts[i]) /\ i \notin marks[p].hidden
    /\ marks' = [marks EXCEPT ![p].pinned = IF i \in @ THEN {} ELSE {i}]
    /\ UNCHANGED <<posts, views, pages>>
Clear(p) ==
  LET latest == Highest({i \in DOMAIN posts : posts[i].at > chatTime - Retention}, 0)
  IN /\ views' = [views EXCEPT ![p] = [read |-> Highest({latest}, @.read),
                                       cleared |-> Highest({latest}, @.cleared)]]
     /\ posts' = [i \in DOMAIN posts |-> IF posts[i].from # p /\ i <= latest
                                         THEN [posts[i] EXCEPT !.read = TRUE] ELSE posts[i]]
     /\ pages' = [pages EXCEPT ![p] = Blank] /\ UNCHANGED marks
Act(p) == /\ requests[p] = NoRequest /\ "act" \in Does[p] /\ (Hide(p) \/ Pin(p) \/ Clear(p))
          /\ UNCHANGED <<chatTime, lastId, requests, served>>

\* cleanup_expired_chat_history.
CleanUp ==
  LET expired == {i \in DOMAIN posts : posts[i].at <= chatTime - Retention} IN
  /\ expired # {} /\ posts' = Without(posts, expired)
  /\ marks' = [q \in People |-> [hidden |-> marks[q].hidden \ expired,
                                 pinned |-> marks[q].pinned \ expired]]
  /\ UNCHANGED <<chatTime, lastId, views, requests, pages, served>>

ChatTicks ==
  /\ chatTime < MaxChat /\ chatTime' = chatTime + 1
  /\ \A p \in People : requests[p] # NoRequest => chatTime < requests[p].at + Longest
  /\ UNCHANGED <<lastId, posts, views, marks, requests, pages, served>>

ChatNext ==
  \/ \E p \in People : \/ StartRead(p) \/ FinishRead(p) \/ OpenPage(p) \/ Act(p)
                       \/ StartSend(p) \/ FinishSend(p) \/ StartRecall(p) \/ FinishRecall(p)
  \/ CleanUp \/ ChatTicks
ChatSpec == ChatInit /\ [][ChatNext]_chatVars

-----------------------------------------------------------------------------
Theirs(p) == {i \in DOMAIN posts : posts[i].from # p}

\* A recall reaches the open page of the other, whenever it is committed beside the
\* page's requests: what a page shows and a recall older than the overlap took back is
\* shown as recalled, unless it expired or its owner removed it.
RecallsReach ==
  \A p \in People : \A i \in DOMAIN pages[p].shown :
    i \in Theirs(p) /\ Recalled(posts[i]) /\ posts[i].at > chatTime - Retention
      /\ posts[i].recalled <= pages[p].cursor - Overlap
      => pages[p].shown[i]

\* The chat document, line 135, of the mark "read" (translated): "the state only says that
\* the other's page has read the message".
ReadMeansServed ==
  \A p \in People : \A i \in DOMAIN posts :
    i \in Theirs(p) /\ i > views[p].cleared /\ (posts[i].read \/ i <= views[p].read)
      => i \in served[p]
=============================================================================
