------------------------------- MODULE Editor -------------------------------
(***************************************************************************)
(* The extension of the editor (tools/vscode-ec/client.js) and its server  *)
(* (server/ec-lsp.js): documents are sent when they are saved, compiled by *)
(* engc processes that end in any order, and what they say is shown; the   *)
(* user may restart the server at any time.  A message arrives whole.      *)
(*                                                                         *)
(* A text has a content of tokens; a name stands for the line that         *)
(* declares it.                                                            *)
(***************************************************************************)
EXTENDS Integers, Sequences, SequencesExt, FiniteSets

CONSTANTS Documents, Texts, TokensOf,
          Code, Stderr,    \* of engc build on a text: its status ("never": the program
                           \* it runs does not end), the kinds of lines it prints
          Known, Names,    \* KEYWORDS, TYPES and BUILTINS; declared names
          Words, Begins(_, _),
          MaxUses   \* bound: of what the user does

VARIABLES text, open,      \* in the editor
          last,            \* the texts this server was sent last
          servers,         \* how many were started: the last one runs
          toServer,
          docs,            \* of the server
          compiles,        \* its engc processes
          temporary, now,  \* os.tmpdir() by Date.now()
          toClient,        \* what each server printed
          shown,           \* diagnostic collections, one for each server; none is disposed of
          leftover,        \* what a document showed when this server was started
          waiting,         \* requests of this client without an answer
          installed,       \* is there an engc?
          doubt,           \* documents whose last compile was disturbed or overtaken
          uses

editorVars == <<text, open, last, servers, toServer, docs, compiles, temporary, now, toClient,
                shown, leftover, waiting, installed, doubt, uses>>

Update(f, x, y) == [z \in DOMAIN f \cup {x} |-> IF z = x THEN y ELSE f[z]]
Remove1(f, x) == [z \in DOMAIN f \ {x} |-> f[z]]

-----------------------------------------------------------------------------
(* What the server says of a text.                                         *)

Diagnosed == {"error", "location", "note"}
parseCompilerOutput(lines) == SelectSeq(lines, LAMBDA l : l \in Diagnosed)

Scan(s, c) ==
    LET To(mode) == [s EXCEPT !.mode = mode]
        Said(d) == [s EXCEPT !.mode = "code", !.diags = Append(@, d)]
    IN  CASE s.mode = "code" /\ c = "//" -> To("line")
          [] s.mode = "code" /\ c = "/*" -> To("block")
          [] s.mode = "code" /\ c = "quote" -> To("string")
          [] s.mode = "code" /\ c = "{" -> [s EXCEPT !.depth = @ + 1]
          [] s.mode = "code" /\ c = "}" -> IF s.depth = 0 THEN Said("without an opening bracket")
                                           ELSE [s EXCEPT !.depth = @ - 1]
          [] s.mode = "string" /\ c = "backslash" -> To("escape")
          [] s.mode = "escape" -> To("string")
          [] s.mode = "string" /\ c = "quote" -> To("code")
          [] s.mode = "string" /\ c = "newline" -> Said("unterminated string")
          [] s.mode = "line" /\ c = "newline" -> To("code")
          [] s.mode = "block" /\ c = "*/" -> To("code")
          [] OTHER -> s

Repeated(src) == {i \in DOMAIN src : src[i] \in Names /\ \E j \in 1..i - 1 : src[j] = src[i]}

\* one kind of bracket stands for the three, which are counted apart
analyzeSyntax(src) ==
    LET s == FoldLeft(Scan, [mode |-> "code", depth |-> 0, diags |-> <<>>], src)
    IN  s.diags
        \o (IF s.mode \in {"string", "escape"} THEN <<"unterminated string">> ELSE <<>>)
        \o (IF s.depth > 0 THEN <<"unclosed">> ELSE <<>>)
        \o [i \in 1..Cardinality(Repeated(src)) |-> "more than once"]

Diagnostics(lines, t) ==
    LET compiler == parseCompilerOutput(lines)
    IN  IF compiler # <<>> THEN compiler ELSE analyzeSyntax(TokensOf[t])

Output(t) == IF installed /\ Code[t] = "fails" THEN Stderr[t] ELSE <<>>
Verdict(t) == Diagnostics(Output(t), t)

Declared(t) == Names \cap ToSet(TokensOf[t])
getCompletions(t, word) == {n \in Known \cup Declared(t) : Begins(word, n)}
getHover(t, word) == {word} \cap (Known \cup Declared(t))
getDefinition(t, word) == {word} \cap Declared(t)

-----------------------------------------------------------------------------
(* The extension.                                                          *)
DidOpen(d) == [method |-> "didOpen", doc |-> d, text |-> text[d]]
DidChange(d) == [method |-> "didChange", doc |-> d, text |-> text[d]]

\* The editor shows the diagnostics of every collection.
Visible(d) == UNION {ToSet(shown[k][d]) : k \in {i \in DOMAIN shown : d \in DOMAIN shown[i]}}

\* to a server that was just started: initialize, initialized and the open documents
Bug_Greeting(docsInOrder) == <<[method |-> "initialize"], [method |-> "initialized"]>>
Greeting(docsInOrder) ==
    <<[method |-> "initialize"], [method |-> "initialized"]>>
    \o [i \in DOMAIN docsInOrder |-> DidOpen(docsInOrder[i])]

Started(opened) ==
    /\ toServer' = Greeting(SetToSeq(opened))
    /\ last' = [d \in opened |-> text[d]]
    /\ docs' = <<>> /\ compiles' = {} /\ waiting' = 0
    /\ servers' = servers + 1
    /\ toClient' = Append(toClient, <<>>)
    /\ shown' = Append(shown, <<>>)
    /\ leftover' = [d \in Documents |-> Visible(d)]

Init ==
    /\ text \in [Documents -> Texts] /\ open \in SUBSET Documents
    /\ last = [d \in open |-> text[d]]
    /\ servers = 1 /\ toServer = Greeting(SetToSeq(open))
    /\ docs = <<>> /\ compiles = {} /\ temporary = <<>> /\ now = 1
    /\ toClient = <<<<>>>> /\ shown = <<<<>>>> /\ waiting = 0
    /\ leftover = [d \in Documents |-> {}]
    /\ installed \in BOOLEAN
    /\ doubt = {} /\ uses = 0

Use == uses < MaxUses /\ uses' = uses + 1

Edit(d) == /\ d \in open /\ Use
           /\ \E t \in Texts \ {text[d]} : text' = [text EXCEPT ![d] = t]
           /\ UNCHANGED <<open, last, servers, toServer, docs, compiles, temporary, now, toClient,
                          shown, leftover, waiting, installed, doubt>>

\* every server started so far has left its listeners: all write to the newest
Save(d) ==
    /\ d \in open /\ Use
    /\ toServer' = toServer \o [i \in 1..2 * servers |-> IF i % 2 = 1 THEN DidOpen(d) ELSE DidChange(d)]
    /\ last' = Update(last, d, text[d])
    /\ UNCHANGED <<text, open, servers, docs, compiles, temporary, now, toClient, shown, leftover,
                   waiting, installed, doubt>>

Toggle(d) ==
    /\ IF d \in open
       THEN /\ open' = open \ {d}
            /\ toServer' = toServer \o [i \in 1..servers |-> [method |-> "didClose", doc |-> d]]
       ELSE open' = open \cup {d} /\ UNCHANGED toServer
    /\ Use
    /\ UNCHANGED <<text, last, servers, docs, compiles, temporary, now, toClient, shown, leftover,
                   waiting, installed, doubt>>

Restart ==
    /\ Use
    /\ Started(open)
    /\ UNCHANGED <<text, open, temporary, now, installed, doubt>>

Request(d) ==
    /\ Use
    /\ waiting' = waiting + 1
    /\ \E method \in {"completion", "hover", "definition"}, word \in Words :
          toServer' = Append(toServer, [method |-> method, doc |-> d, word |-> word])
    /\ UNCHANGED <<text, open, last, servers, docs, compiles, temporary, now, toClient, shown,
                   leftover, installed, doubt>>

\* A reply has no method: handle knows none of them and the request is never resolved
Deliver(k) ==
    /\ toClient[k] # <<>>
    /\ toClient' = [toClient EXCEPT ![k] = Tail(@)]
    /\ LET m == Head(toClient[k])
       IN  shown' = IF "diagnostics" \in DOMAIN m
                    THEN [shown EXCEPT ![servers] = Update(@, m.doc, m.diagnostics)]
                    ELSE shown
    /\ UNCHANGED <<text, open, last, servers, toServer, docs, compiles, temporary, now, leftover,
                   waiting, installed, doubt, uses>>

-----------------------------------------------------------------------------
(* The server: one message at a time, in their order.                      *)
Send(m) == toClient' = [toClient EXCEPT ![servers] = Append(@, m)]

\* May what a former server printed still come between?
Haunted(d, t) ==
    \E k \in 1..servers - 1 : \E m \in ToSet(toClient[k]) :
        "diagnostics" \in DOMAIN m /\ m.doc = d /\ m.diagnostics # Verdict(t)

\* those of another text of the document end too late from now on
Superseded(d, t) ==
    {[c EXCEPT !.superseded = @ \/ (c.doc = d /\ c.text # t)] : c \in compiles}

\* Two compiles that start in one millisecond share their file
Compile(m) ==
    LET Smallest(used) == CHOOSE i \in 1..Cardinality(used) + 1 : i \notin used /\ \A j \in 1..i - 1 : j \in used
        id == Smallest({c.id : c \in compiles})
    IN  /\ now' \in {now, Smallest(DOMAIN temporary \cup {c.file : c \in compiles} \cup {now})}
        /\ temporary' = Update(temporary, now', m.text)
        /\ compiles' = Superseded(m.doc, m.text) \cup
               {[id |-> id, doc |-> m.doc, text |-> m.text, file |-> now', read |-> "nothing",
                 superseded |-> FALSE]}
        /\ doubt' = IF Haunted(m.doc, m.text) THEN doubt \cup {m.doc} ELSE doubt \ {m.doc}

\* didChange stores the text and then fails on a name that is not in scope
Synchronize(m) ==
    /\ \/ /\ m.method = "didOpen"
          /\ docs' = Update(docs, m.doc, m.text)
          /\ Compile(m)
       \/ /\ m.method = "didChange"
          /\ docs' = Update(docs, m.doc, m.text)
          /\ UNCHANGED <<compiles, temporary, now, doubt>>
       \/ /\ m.method = "didClose"
          /\ docs' = Remove1(docs, m.doc)
          /\ UNCHANGED <<compiles, temporary, now, doubt>>
       \/ m.method = "initialized" /\ UNCHANGED <<docs, compiles, temporary, now, doubt>>
    /\ UNCHANGED toClient

Answer(m) ==
    /\ LET Of(f(_, _)) == IF m.doc \in DOMAIN docs THEN f(docs[m.doc], m.word) ELSE {}
       IN  \/ m.method = "initialize" /\ Send([reply |-> {"capabilities"}])
           \/ m.method = "completion" /\ Send([reply |-> Of(getCompletions)])
           \/ m.method = "hover" /\ Send([reply |-> Of(getHover)])
           \/ m.method = "definition" /\ Send([reply |-> Of(getDefinition)])
    /\ UNCHANGED <<docs, compiles, temporary, now, doubt>>

handleMessage ==
    /\ toServer # <<>>
    /\ toServer' = Tail(toServer)
    /\ Synchronize(Head(toServer)) \/ Answer(Head(toServer))
    /\ UNCHANGED <<text, open, last, servers, shown, leftover, waiting, installed, uses>>

\* engc reads its source, if another compile has not removed it
ReadSource(c) ==
    /\ c.read = "nothing"
    /\ compiles' = (compiles \ {c}) \cup
           {[c EXCEPT !.read = IF installed /\ c.file \in DOMAIN temporary THEN temporary[c.file]
                               ELSE "gone"]}
    /\ UNCHANGED <<text, open, last, servers, toServer, docs, temporary, now, toClient, shown,
                   leftover, waiting, installed, doubt, uses>>

\* It ends before one that was started earlier, for another text.
Overtakes(c) == ~c.superseded /\ \E old \in compiles : old.doc = c.doc /\ old.superseded

\* on close, and publishDiagnostics
Publish(c, lines) ==
    LET diagnostics == Diagnostics(lines, c.text)
    IN  /\ c.read # "nothing"
        /\ compiles' = compiles \ {c}
        /\ temporary' = Remove1(temporary, c.file)
        /\ Send([doc |-> c.doc, diagnostics |-> diagnostics])
        /\ doubt' = IF diagnostics = Verdict(c.text) /\ ~Overtakes(c) THEN doubt
                    ELSE doubt \cup {c.doc}
        /\ UNCHANGED <<text, open, last, servers, toServer, docs, now, shown, leftover, waiting,
                       installed, uses>>

Ended(c) == \/ c.read = "gone" /\ Publish(c, <<>>)
            \/ c.read \in Texts /\ Code[c.read] # "never" /\ Publish(c, Output(c.read))

\* after ten seconds engc is stopped, whatever it has printed
Timeout(c) == /\ c.read \in Texts /\ Code[c.read] # "never"
              /\ \E n \in 0..Len(Stderr[c.read]) : Publish(c, SubSeq(Stderr[c.read], 1, n))

Next == \/ \E d \in Documents : Edit(d) \/ Save(d) \/ Toggle(d) \/ Request(d)
        \/ Restart
        \/ \E k \in 1..servers : Deliver(k)
        \/ handleMessage
        \/ \E c \in compiles : ReadSource(c) \/ Ended(c) \/ Timeout(c)

Spec == Init /\ [][Next]_editorVars

-----------------------------------------------------------------------------
Settled(d) ==
    /\ \A c \in compiles : c.doc # d
    /\ toServer = <<>> /\ \A k \in 1..servers : toClient[k] = <<>>

\* Once nothing is under way, an open document shows what is to be said of the text that
\* was sent last, and besides it only what it showed when the server was restarted, which
\* stays for ever (publishDiagnostics, handle, startServer): but for compiles that were
\* stopped, shared a file, or were overtaken by one of a later text.
ShownIsCurrent ==
    \A d \in (open \cap DOMAIN last) \ doubt :
        Settled(d) => Visible(d) = ToSet(Verdict(last[d])) \cup leftover[d]
=============================================================================
