------------------------------ MODULE XmlTree ------------------------------
(***************************************************************************)
(* XML documents: what the parser keeps of a document, how an element is   *)
(* found in it, and its canonical form, beside the one that the exclusive  *)
(* canonicalization of the W3C defines.                                    *)
(*                                                                         *)
(* A document is a sequence of nodes.  A name is a prefix and a local      *)
(* name; declarations and scopes are functions from prefixes to            *)
(* namespaces.  A text of a document is as it is written, with references  *)
(* for what may not appear literally, and one of a tree as it is meant.    *)
(***************************************************************************)
EXTENDS Naturals, Sequences, SequencesExt, TLC

Element(name, ns, attrs, children) ==
  [name |-> name, ns |-> ns, attrs |-> attrs, children |-> children]
Attr(local, value) == [name |-> <<"", local>>, value |-> value]

\* A text is of a kind, which tells a digest from a word.
Text(kind, value) == [text |-> <<kind, value>>]
Instruction(target) == [instruction |-> target]
Comment(words) == [comment |-> words]

IsElement(node) == "name" \in DOMAIN node
Elements(nodes) == SelectSeq(nodes, IsElement)
Heads(seq) == IF seq = <<>> THEN <<>> ELSE <<Head(seq)>>   \* the first, if any

\* Of every member of a sequence (joined, so that TLC evaluates it once).
Each(seq, Op(_)) == [i \in DOMAIN seq |-> Op(seq[i])] \o <<>>

-----------------------------------------------------------------------------
(* Texts.                                                                  *)

IsWords(node) == IF "text" \in DOMAIN node THEN node.text[1] = "words" ELSE FALSE
Translated(node, translation) ==
  IF ~IsWords(node) \/ node.text[2] \notin DOMAIN translation THEN node
  ELSE Text("words", translation[node.text[2]])

\* The decoder of the library (external): what is written as a reference is the
\* character, and a carriage return that is written literally is a line feed.
ReadAs ==
  ("&amp;" :> "&") @@ ("&#xD;" :> "\r") @@ ("\r" :> "\n") @@ ("]]&gt;" :> "]]>")
\* escapeText.
WrittenAs == ("&" :> "&amp;")

RECURSIVE Words(_)
Words(nodes) ==
  UNION {IF IsElement(nodes[i]) THEN Words(nodes[i].children)
         ELSE IF IsWords(nodes[i]) THEN {nodes[i].text[2]} ELSE {} : i \in DOMAIN nodes}

\* serialize: the elements as they are, with their texts escaped.
RECURSIVE Serialize(_)
Serialize(nodes) ==
  Each(nodes, LAMBDA node : IF IsElement(node) THEN [node EXCEPT !.children = Serialize(@)]
                            ELSE Translated(node, WrittenAs))

-----------------------------------------------------------------------------
(* parseXML: comments and document types are dropped everywhere, and       *)
(* instructions and text where the other is.  A document with the end of a *)
(* literal section in its text has no nodes: it is not parsed.             *)

RECURSIVE Inside(_)
Inside(nodes) ==
  LET kept == SelectSeq(nodes, LAMBDA node : IsElement(node) \/ "text" \in DOMAIN node)
  IN Each(kept, LAMBDA node : IF IsElement(node) THEN [node EXCEPT !.children = Inside(@)]
                              ELSE Translated(node, ReadAs))

ParseXML(document) ==
  LET kept == SelectSeq(document, LAMBDA node : IsElement(node) \/ "instruction" \in DOMAIN node)
  IN IF "]]>" \in Words(document) THEN <<>>
     ELSE Each(kept, LAMBDA node : IF IsElement(node) THEN [node EXCEPT !.children = Inside(@)]
                                   ELSE node)

\* The only element at the top.
RootElement(roots) == IF Len(Elements(roots)) = 1 THEN Elements(roots) ELSE <<>>
WithRoot(roots, root) == Each(roots, LAMBDA node : IF IsElement(node) THEN root ELSE node)

-----------------------------------------------------------------------------
(* Finding.                                                                *)

AttrValue(e, local) ==
  LET found == SelectSeq(e.attrs, LAMBDA a : a.name[2] = local)
  IN IF found = <<>> THEN "" ELSE Head(found).value

FirstChild(e, local) == Heads(SelectSeq(Elements(e.children), LAMBDA c : c.name[2] = local))
AppendChild(parent, child) == [parent EXCEPT !.children = Append(@, child)]

InsertChildBefore(parent, local, child) ==
  LET at == SelectInSeq(parent.children, LAMBDA c : IsElement(c) /\ c.name[2] = local)
  IN IF at = 0 THEN AppendChild(parent, child)
     ELSE [parent EXCEPT !.children = InsertAt(@, at, child)]

\* removeChild: only of the children of this element.
RemoveChild(parent, child) ==
  LET at == SelectInSeq(parent.children, LAMBDA c : IsElement(c) /\ c = child)
  IN IF at = 0 THEN parent ELSE [parent EXCEPT !.children = RemoveAt(@, at)]

\* An element and all below it in the order of the document, with their scopes.
RECURSIVE Descendants(_, _)
Descendants(e, outer) ==
  LET scope == e.ns @@ outer
  IN <<[element |-> e, scope |-> scope]>>
     \o FlattenSeq(Each(Elements(e.children), LAMBDA child : Descendants(child, scope)))

XmlScope == [xml |-> "http://www.w3.org/XML/1998/namespace"]
AllElements(root) == Descendants(root, XmlScope)

ElementByID(root, id) ==
  Heads(SelectSeq(AllElements(root), LAMBDA d :
    \E i \in DOMAIN d.element.attrs :
      d.element.attrs[i].name[2] \in {"Id", "ID"} /\ d.element.attrs[i].value = id))

-----------------------------------------------------------------------------
(* The canonical form.  The order of attributes and declarations in it is  *)
(* fixed, so they are sets and functions.                                  *)

Utilized(e) == {e.name[1]} \cup {a.name[1] : a \in {x \in ToSet(e.attrs) : x.name[1] # ""}}

\* The declarations of an element: of prefixes that it uses and that no element
\* around it has declared so already.
Rendered(e, scope, rendered) ==
  [p \in {q \in (Utilized(e) \cap DOMAIN scope) \ {"xml"} :
            q \in DOMAIN rendered => rendered[q] # scope[q]} |-> scope[p]]

CanonicalElement(e, declared, children) ==
  [name |-> e.name, ns |-> declared, attrs |-> ToSet(e.attrs), children |-> children]

\* writeCanonicalNode: the scope stays that of the element it began with.
RECURSIVE WriteCanonical(_, _, _)
WriteCanonical(node, scope, rendered) ==
  IF ~IsElement(node) THEN node
  ELSE LET declared == Rendered(node, scope, rendered)
       IN CanonicalElement(node, declared,
            Each(node.children, LAMBDA child : WriteCanonical(child, scope, declared @@ rendered)))

CanonicalOf(d) == WriteCanonical(d.element, d.scope, <<>>)

Canonicalize(roots) ==
  Each(roots, LAMBDA node :
    IF IsElement(node) THEN CanonicalOf([element |-> node, scope |-> node.ns @@ XmlScope]) ELSE node)

\* The form that the specification defines: every element has a scope of its own.
RECURSIVE ExclusiveForm(_, _, _)
ExclusiveForm(node, outer, rendered) ==
  IF ~IsElement(node) THEN node
  ELSE LET scope == node.ns @@ outer
           declared == Rendered(node, scope, rendered)
       IN CanonicalElement(node, declared,
            Each(node.children, LAMBDA child : ExclusiveForm(child, scope, declared @@ rendered)))
=============================================================================
