--------------------------- MODULE LanguageServer ---------------------------
(***************************************************************************)
(* engc lsp (langserver/langserver.cpp): requests from standard input, one *)
(* after the other.  The header of the first message is skipped up to its  *)
(* blank line, so its body is the beginning of the line that the second    *)
(* header ends; from then on each body is read from the blank line on, and *)
(* its last two characters stay for the next line.                         *)
(*                                                                         *)
(* The stream is made of units: a header with the end of its line, the     *)
(* blank line, and a body of pieces of two characters, the first of them   *)
(* standing for all but the end of it.                                     *)
(***************************************************************************)
EXTENDS Integers, Sequences, SequencesExt

CONSTANTS Methods,     \* of the messages clients send
          Uris,
          FirstIds,    \* of the first message of a client: numbers
          MaxMessages  \* bound

ASSUME FirstIdsAssumption == FirstIds \subseteq Nat

VARIABLES sent,      \* the messages of this client
          unread,    \* what the server has not read
          reading,   \* "header", "messages" or "stopped"
          openDocuments,      \* openDocuments_: uri |-> its characters
          replies

serverVars == <<sent, unread, reading, openDocuments, replies>>

\* Methods without parameters
Bare == {"shutdown", "exit"}
Notifications == {"initialized", "exit", "textDocument/didOpen", "textDocument/didChange",
                  "textDocument/didSave", "textDocument/didClose"}

Handled == (Notifications \ {"exit"}) \cup
           {"initialize", "textDocument/completion", "textDocument/hover", "textDocument/definition",
            "textDocument/documentSymbol", "textDocument/diagnostic", "textDocument/signatureHelp", "shutdown"}

\* The last member of a message is what a client writes there: the parameters, if it has
\* some, the method or, unless it is a notification, the id.
Message(id, method, uri, size, last) ==
    [id |-> IF method \in Notifications THEN 0 ELSE id, method |-> method, uri |-> uri, size |-> size,
     last |-> IF \/ last = "method" /\ method \notin Bare
                 \/ last = "id" /\ method \in Notifications THEN "params" ELSE last]

Members == {"params", "method", "id"}

Header(n) == [t |-> "header", n |-> n]
Blank == [t |-> "blank"]
Units(m) == <<Header(m.size), Blank, [t |-> "body", message |-> m]>>
            \o [i \in 1..m.size - 2 |-> [t |-> "rest"]] \o <<[t |-> "end"]>>

ServerInit ==
    /\ \E n \in 1..MaxMessages :
          \E methods \in [1..n -> Methods], uris \in [1..n -> Uris], size \in {2, 4}, last \in Members,
             from \in FirstIds :
              sent = <<Message(from, "initialize", CHOOSE u \in Uris : TRUE, 3, "params")>>
                     \o [i \in 1..n |-> Message(from + i, methods[i], uris[i], size, last)]
    /\ unread = FlattenSeq([i \in DOMAIN sent |-> Units(sent[i])])
    /\ reading = "header"
    /\ openDocuments = <<>>
    /\ replies = <<>>

-----------------------------------------------------------------------------
(* What a document says.  No handler ever stores a text: the content is    *)
(* empty, and a column beyond it is not asked for (it has no defined       *)
(* effect).                                                                *)

WordChars == {"a", "b"}
WordAt(content, column) ==
    LET from == CHOOSE i \in 1..column + 1 :
                    /\ \A j \in i..column : content[j] \in WordChars
                    /\ i = 1 \/ content[i - 1] \notin WordChars
        to == CHOOSE i \in column..Len(content) :
                  /\ \A j \in column + 1..i : content[j] \in WordChars
                  /\ i = Len(content) \/ content[i + 1] \notin WordChars
    IN  SubSeq(content, from, to)

Keywords == {<<"a">>}
getCompletionsAt(uri) == IF uri \notin DOMAIN openDocuments THEN {} ELSE {w \in Keywords : IsPrefix(WordAt(openDocuments[uri], 0), w)}
getHoverAt(uri) == IF uri \notin DOMAIN openDocuments THEN {} ELSE Keywords \cap {WordAt(openDocuments[uri], 0)}
Lines(content) == {i \in DOMAIN content : content[i] = "fn "}
getDefinitionAt(uri) ==
    IF uri \notin DOMAIN openDocuments \/ WordAt(openDocuments[uri], 0) = <<>> THEN {}
    ELSE {i \in Lines(openDocuments[uri]) : IsPrefix(WordAt(openDocuments[uri], 0), SubSeq(openDocuments[uri], i + 1, Len(openDocuments[uri])))}
getDocumentSymbols(uri) ==
    IF uri \notin DOMAIN openDocuments THEN {} ELSE {i \in DOMAIN openDocuments[uri] : openDocuments[uri][i] \in {"fn ", "type "}}

-----------------------------------------------------------------------------
(* handleRequest.                                                          *)
Reply(id, result) == replies' = Append(replies, [id |-> id, result |-> result])
WithoutDoc(uri) == [u \in DOMAIN openDocuments \ {uri} |-> openDocuments[u]]

didOpen(m) == openDocuments' = [u \in DOMAIN openDocuments \cup {m.uri} |-> IF u = m.uri THEN <<>> ELSE openDocuments[u]]
didChange(m) == openDocuments' = IF m.uri \in DOMAIN openDocuments THEN [openDocuments EXCEPT ![m.uri] = <<>>] ELSE openDocuments
\* what the compiler says of it goes to standard error, and diagnostics_ stays empty
didSave(m) == UNCHANGED openDocuments
getDiagnostics(uri) == {}
didClose(m) == openDocuments' = WithoutDoc(m.uri)

SynchronizeDocument(m) ==
    /\ \/ m.method = "textDocument/didOpen" /\ didOpen(m)
       \/ m.method = "textDocument/didChange" /\ didChange(m)
       \/ m.method = "textDocument/didSave" /\ didSave(m)
       \/ m.method = "textDocument/didClose" /\ didClose(m)
    /\ Reply(m.id, {})

AnswerRequest(m) ==
    /\ \/ m.method = "initialize" /\ Reply(m.id, {"capabilities"})
       \/ m.method = "textDocument/completion" /\ Reply(m.id, getCompletionsAt(m.uri))
       \/ m.method = "textDocument/hover" /\ Reply(m.id, getHoverAt(m.uri))
       \/ m.method = "textDocument/definition" /\ Reply(m.id, getDefinitionAt(m.uri))
       \/ m.method = "textDocument/documentSymbol" /\ Reply(m.id, getDocumentSymbols(m.uri))
       \/ m.method = "textDocument/diagnostic" /\ Reply(m.id, getDiagnostics(m.uri))
       \/ m.method = "textDocument/signatureHelp" /\ Reply(m.id, {})
       \/ m.method \notin Handled /\ Reply(m.id, {"not found"})
    /\ UNCHANGED openDocuments

\* initialized is the one message without a reply
handleRequest(m) ==
    /\ \/ SynchronizeDocument(m)
       \/ AnswerRequest(m)
       \/ m.method = "shutdown" /\ Reply(m.id, {}) /\ UNCHANGED openDocuments
       \/ m.method = "initialized" /\ UNCHANGED <<openDocuments, replies>>
    /\ reading' = IF m.method = "shutdown" THEN "stopped" ELSE "messages"

-----------------------------------------------------------------------------
(* run.                                                                    *)
LineEnds == {i \in DOMAIN unread : unread[i].t \in {"header", "blank"}}
Line == IF LineEnds = {} THEN unread
        ELSE SubSeq(unread, 1, CHOOSE i \in LineEnds : \A j \in LineEnds : i <= j)
Behind(n) == SubSeq(unread, n + 1, Len(unread))

\* find("Content-Length: "), anywhere in the line
Bug_HasHeader(line) == line[1].t = "header"
HasHeader(line) == Last(line).t = "header"

\* Without its end a body that ends in the method has none, as its last quote is missing,
\* and one that ends in the id has an id with a digit less.
Received(m, whole) ==
    CASE m.last = "method" /\ ~whole -> [m EXCEPT !.method = ""]
      [] m.last = "id" /\ ~whole -> [m EXCEPT !.id = @ \div 10]
      [] OTHER -> m
\* std::stoi throws where no digit is left
Unreadable(m) == m.last = "id" /\ m.id = 0
Parsed(body) ==
    Received(body[CHOOSE i \in DOMAIN body : body[i].t = "body"].message, Last(body).t = "end")

SkipHeaders ==
    /\ reading = "header" /\ unread # <<>>
    /\ unread' = Behind(Len(Line))
    /\ reading' = IF Line = <<Blank>> THEN "messages" ELSE "header"
    /\ UNCHANGED <<sent, openDocuments, replies>>

ReadMessage ==
    /\ reading = "messages" /\ unread # <<>>
    /\ LET n == Last(Line).n
           message == Parsed(SubSeq(unread, Len(Line) + 1, Len(Line) + n))
       IN  IF HasHeader(Line)
           THEN /\ unread' = Behind(Len(Line) + n)
                /\ IF Unreadable(message) THEN reading' = "stopped" /\ UNCHANGED <<openDocuments, replies>>
                   ELSE handleRequest(message)
           ELSE /\ unread' = Behind(Len(Line))
                /\ UNCHANGED <<reading, openDocuments, replies>>
    /\ UNCHANGED sent

EndOfInput ==
    /\ reading # "stopped" /\ unread = <<>>
    /\ reading' = "stopped"
    /\ UNCHANGED <<sent, unread, openDocuments, replies>>

ServerNext == SkipHeaders \/ ReadMessage \/ EndOfInput

ServerSpec == ServerInit /\ [][ServerNext]_serverVars

-----------------------------------------------------------------------------
\* The messages up to the n-th that are to be answered; the first one is never read
Asked[n \in DOMAIN sent] ==
    IF n = 1 THEN <<>>
    ELSE IF sent[n].method = "initialized" THEN Asked[n - 1] ELSE Append(Asked[n - 1], sent[n])
Answerable == Asked[Len(sent)]
Ids(messages) == [i \in DOMAIN messages |-> messages[i].id]

\* The id is never the last member of a message (client.js, for one, writes it second)
IdsReadable == \A i \in DOMAIN sent : sent[i].last # "id"

\* Whatever the lengths, no later message is lost, cut or answered twice: the replies
\* are those to the second message and on, in order, up to a shutdown (run, handleRequest),
\* for every client that puts the id before another member.
AnswersInOrder ==
    IdsReadable =>
        /\ IsPrefix(Ids(replies), Ids(Answerable))
        /\ reading = "stopped" => \/ Len(replies) = Len(Answerable)
                                  \/ replies # <<>> /\ Answerable[Len(replies)].method = "shutdown"
=============================================================================
