------------------------------ MODULE DocSearch ------------------------------
(***************************************************************************)
(* The search of the published documentation (docs/search.js,              *)
(* docs/src/search.js and the script of docs/src/utf.html): a page whose   *)
(* content follows the search term in its URL, and an index that a script  *)
(* brings later, or not at all.  pdoc generated the files; the library     *)
(* inside search.js (elasticlunr) is modelled from that text.              *)
(*                                                                         *)
(* A text is the set of its words as the tokenizer splits them; StartWith  *)
(* says which words a typed word is the beginning of.  Scores and the      *)
(* order and layout of the results are left out.                           *)
(***************************************************************************)
EXTENDS Integers, SequencesExt

CONSTANTS
  Docs, Word,
  Text,         \* Text[d][f]: the words of field f of document d
  StartWith,    \* StartWith[w]: the words that begin with w
  StopWords,    \* words the stop word filter would drop
  Stem,         \* Stem[w]: what the stemmer would make of w
  Terms,        \* search terms, sets of words
  NoTerm,       \* no search parameter in the URL
  Absent,       \* undefined
  MaxEntries    \* bound: entries of the session history

Field == {"qualname", "fullname", "annotation", "default_value", "signature",
          "bases", "doc"}

ASSUME SearchAssumption ==
  /\ Text \in [Docs -> [Field -> SUBSET Word]] /\ StartWith \in [Word -> SUBSET Word]
  /\ Terms \subseteq SUBSET Word /\ NoTerm \notin Terms
  /\ Absent \notin [Field -> [Word -> SUBSET Docs]]
  /\ MaxEntries \in Nat \ {0}

VARIABLES
  prebuilt,  \* docs._isPrebuiltIndex: docs/src/search.js holds the index,
             \* docs/search.js the documents
  history,   \* search terms in the URLs of the page's history entries
  at,        \* the entry shown
  script,    \* the script element: "none", "loading", "loaded" or "failed"
  search,    \* the index behind the variable search, or Absent
  content,   \* what the page shows
  onFocus,   \* initialize() waits for the focus event of the box
  navClicks  \* the click handler of the navigation is installed
pageVars == <<prebuilt, history, at, script, search, content, onFocus, navClicks>>

Term == history[at]

-----------------------------------------------------------------------------
(* The index                                                               *)

DefaultPipeline == {"trimmer", "stopWordFilter", "stemmer"}

\* Mutant: the stop word filter stays in the pipeline.
MutPipeline == DefaultPipeline \ {"stemmer"}
Pipeline == DefaultPipeline \ {"stemmer", "stopWordFilter"}

RunPipeline(words) ==
  LET kept == IF "stopWordFilter" \in Pipeline THEN words \ StopWords ELSE words
  IN  {IF "stemmer" \in Pipeline THEN Stem[w] ELSE w : w \in kept}

\* addDoc() of every document
BuiltIndex ==
  [f \in Field |-> [w \in Word |-> {d \in Docs : w \in RunPipeline(Text[d][f])}]]

\* The index inside docs/src/search.js: what pdoc built from the same texts
\* with a pipeline of the trimmer alone.
LoadedIndex == [f \in Field |-> [w \in Word |-> {d \in Docs : w \in Text[d][f]}]]

Index == IF prebuilt THEN LoadedIndex ELSE BuiltIndex

\* fieldSearch() with expand: every indexed word that begins with w.
FieldSearch(words, f) == UNION {search[f][e] : e \in UNION {StartWith[w] : w \in words}}

Results(term) == UNION {FieldSearch(RunPipeline(term), f) : f \in Field}

-----------------------------------------------------------------------------
(* The page                                                                *)

Original == [shows |-> "original", term |-> NoTerm, docs |-> {}]
Searching == [shows |-> "searching", term |-> NoTerm, docs |-> {}]
ErrorPage == [shows |-> "error", term |-> NoTerm, docs |-> {}]

\* onInput()
Shown(term) ==
  IF term = NoTerm THEN Original
  ELSE IF script = "failed" THEN ErrorPage
  ELSE IF search = Absent THEN Searching
  ELSE [shows |-> "results", term |-> term, docs |-> Results(term)]

\* What is shown after a page load: a term in the URL starts initialize().
Load(term) ==
  /\ script' = IF term = NoTerm THEN "none" ELSE "loading"
  /\ search' = Absent
  /\ content' = IF term = NoTerm THEN Original ELSE Searching
  /\ onFocus' = (term = NoTerm)
  /\ navClicks' = FALSE

PageInit ==
  /\ prebuilt \in BOOLEAN
  /\ history \in {<<t>> : t \in Terms \cup {NoTerm}} /\ at = 1
  /\ script = IF Term = NoTerm THEN "none" ELSE "loading"
  /\ search = Absent
  /\ content = IF Term = NoTerm THEN Original ELSE Searching
  /\ onFocus = (Term = NoTerm)
  /\ navClicks = FALSE

\* The box gets the focus for the first time: initialize().
Focus ==
  /\ onFocus /\ onFocus' = FALSE
  /\ script' = "loading"
  /\ UNCHANGED <<prebuilt, history, at, search, content, navClicks>>

\* The end of initialize(), after the script's onload or onerror.
\* The script that arrives is one of the repository's, which set pdocSearch.
ScriptLoads ==
  /\ script = "loading" /\ script' = "loaded"
  /\ search' = Index
  /\ UNCHANGED <<prebuilt, history, at, onFocus>>
  /\ content' = Shown(Term)'
  /\ navClicks' = TRUE

\* Mutant: the error is kept for the next input.
MutScriptFails ==
  /\ script = "loading" /\ script' = "failed"
  /\ navClicks' = TRUE
  /\ UNCHANGED <<prebuilt, history, at, search, onFocus, content>>

ScriptFails ==
  /\ script = "loading" /\ script' = "failed"
  /\ UNCHANGED <<prebuilt, history, at, search, onFocus>>
  /\ content' = Shown(Term)'
  /\ navClicks' = TRUE

\* The input handler: replaceState() keeps the entry.  The box may have had
\* the focus before the page listened for it.
Input(term) ==
  /\ history' = [history EXCEPT ![at] = term]
  /\ content' = Shown(term)
  /\ UNCHANGED <<prebuilt, at, script, search, onFocus, navClicks>>

\* Mutant: no listener for popstate.
MutGo(n) ==
  /\ n \in DOMAIN history /\ n # at
  /\ at' = n
  /\ UNCHANGED <<prebuilt, history, script, search, onFocus, navClicks, content>>

\* Back and forward: popstate runs onInput().
Go(n) ==
  /\ n \in DOMAIN history /\ n # at
  /\ at' = n
  /\ content' = Shown(history[n])
  /\ UNCHANGED <<prebuilt, history, script, search, onFocus, navClicks>>

\* A link to a place on the page adds an entry (and fires popstate).  In the
\* navigation the click handler clears the box first, once it is installed.
FollowAnchor(nav) ==
  /\ at < MaxEntries
  /\ LET cleared == IF nav /\ navClicks THEN [history EXCEPT ![at] = NoTerm] ELSE history
     IN  /\ history' = Append(SubSeq(cleared, 1, at), cleared[at])
         /\ content' = Shown(cleared[at])
  /\ at' = at + 1
  /\ UNCHANGED <<prebuilt, script, search, onFocus, navClicks>>

Reload ==
  /\ Load(Term)
  /\ UNCHANGED <<prebuilt, history, at>>

PageNext ==
  \/ Focus \/ ScriptLoads \/ ScriptFails
  \/ \E t \in Terms \cup {NoTerm} : Input(t)
  \/ \E n \in 1..MaxEntries : Go(n)
  \/ \E nav \in BOOLEAN : FollowAnchor(nav)
  \/ Reload

\* The browser fetches the script; users need not do anything.
PageFairness == WF_pageVars(ScriptLoads \/ ScriptFails)
PageSpec == PageInit /\ [][PageNext]_pageVars /\ PageFairness

-----------------------------------------------------------------------------
(* Properties                                                              *)

PageTypeOK ==
  /\ prebuilt \in BOOLEAN
  /\ history \in Seq(Terms \cup {NoTerm}) /\ at \in DOMAIN history
  /\ script \in {"none", "loading", "loaded", "failed"}
  /\ search = Absent <=> script # "loaded"
  /\ content.docs \subseteq Docs
  /\ onFocus <=> script = "none"
  /\ navClicks <=> script \in {"loaded", "failed"}

\* Between handlers the page shows what belongs to the term in its URL:
\* however typing, Back, Forward, anchors, reloads and the late arrival of the
\* index are ordered, results of another term or of no index never stay.
ContentCurrent == content = Shown(Term)

\* A typed word finds exactly the documents with a word that begins with it, in
\* any field, stop words and inflected words included, and the same documents
\* whether the page built its index or found it prebuilt.
EveryWordFinds ==
  search # Absent =>
    \A w \in Word :
      Results({w}) = {d \in Docs : \E f \in Field : Text[d][f] \cap StartWith[w] # {}}

\* A page that asked for the index does not say "Searching..." for ever, if
\* the request for the script ends one way or the other.
Settles == script = "loading" ~> script # "loading" /\ content # Searching
=============================================================================
