------------------------- MODULE DocumentConversion -------------------------
(* The ways of a document into a serialization and out of it again: mapped by a schema,    *)
(* read as XML or as JSON; printed as JSON or as XML. And what comes out at the other end.  *)
EXTENDS SchemaMeaning, XmlSerialization, Markup

VARIABLE way            \* "schema", "xml" or "json"

allVars == <<vars, xmlVars, way>>

ConvInit ==
  /\ Init /\ XmlInit
  /\ way \in {"schema", "xml", "json"}

MapBySchema == way = "schema" /\ Next /\ UNCHANGED <<xmlVars, way>>

Sent == doc' \in Documents
Unmapped == <<tree, root, ops, form, mapped, state, err>>

StartXml == way = "xml" /\ reading = "idle" /\ Sent /\ StartReading(XmlItems(doc')) /\ UNCHANGED <<Unmapped, way>>
ReadXml == way = "xml" /\ XmlNext /\ UNCHANGED <<vars, way>>

(* The members of an object come in the order the client wrote them                         *)
RECURSIVE AttributesLast(_)
AttributesLast(nd) ==
  LET members == SelectSeq(nd.child, LAMBDA c : c.sort # "attribute")
                   \o SelectSeq(nd.child, LAMBDA c : c.sort = "attribute")
  IN [nd EXCEPT !.child = [i \in DOMAIN members |-> AttributesLast(members[i])]]
Writings(nd) == {nd, AttributesLast(nd)}

ReadJson ==
  /\ way = "json" /\ reading = "idle"
  /\ Sent
  /\ withRoot' \in BOOLEAN
  /\ \E r \in {FromJson(nd, withRoot') : nd \in Writings(JsonTree(doc'))} : ser' = r.ser /\ reading' = r.err
  /\ UNCHANGED <<Unmapped, way, xml, pos, arrays, arrayidx, siblings, structure>>

ConvNext == MapBySchema \/ StartXml \/ ReadXml \/ ReadJson
ConvSpec == ConvInit /\ [][ConvNext]_allVars

-----------------------------------------------------------------------------
(* What XML means as serialization: elements with one name that follow each other are one   *)
(* array, attributes are the first members, the text next to them has no name               *)
RECURSIVE XmlMeaning(_, _)
Leaf(e) == IF e.text = NoText THEN <<Void>> ELSE <<Value("string", e.text)>>
AttributesAndText(e) ==
  FlattenSeq([i \in DOMAIN e.atts |-> <<Name(e.atts[i].name), Value("string", e.atts[i].v)>>])
    \o (IF e.atts = <<>> \/ e.text = NoText THEN <<>> ELSE <<Name("")>> \o Leaf(e))

XmlMeaning(runs, all) ==
  LET Body(e) == AttributesAndText(e) \o XmlMeaning(Runs(e.kids), TRUE)
      Whole(e) == IF IsLeaf(e) THEN Leaf(e) ELSE Enclosed(Body(e))
      Group(run) == IF Len(run) = 1 THEN Whole(run[1])
                    ELSE Enclosed(FlattenSeq([i \in DOMAIN run |-> Whole(run[i])]))
  IN IF all THEN FlattenSeq([i \in DOMAIN runs |-> <<Name(runs[i][1].name)>> \o Group(runs[i])])
     ELSE LET e == runs[1][1] IN IF IsLeaf(e) THEN IF e.text = NoText THEN <<>> ELSE Leaf(e) ELSE Body(e)

-----------------------------------------------------------------------------
RECURSIVE HasArray(_)
HasArray(e) == \/ \E i \in DOMAIN e.kids : HasArray(e.kids[i])
               \/ \E run \in Range(Runs(e.kids)) : Len(run) > 1

(* The first pass finds an array in the first element of another before that one             *)
RECURSIVE ArraysFoundInOrder(_)
ArraysFoundInOrder(e) ==
  /\ \A i \in DOMAIN e.kids : ArraysFoundInOrder(e.kids[i])
  /\ \A run \in Range(Runs(e.kids)) : Len(run) > 1 => ~HasArray(run[1])

RECURSIVE WithoutAttributes(_)
WithoutAttributes(e) == e.atts = <<>> /\ \A i \in DOMAIN e.kids : WithoutAttributes(e.kids[i])
RECURSIVE WithoutAttributedText(_)
WithoutAttributedText(e) ==
  (e.atts = <<>> \/ e.text = NoText) /\ \A i \in DOMAIN e.kids : WithoutAttributedText(e.kids[i])

(* The attributes of every structure come before its other members                            *)
RECURSIVE AttributesLead(_)
AttributesLead(parts) ==
  LET given == IF IsDict(parts) THEN Members(parts) ELSE <<>>
      IsAttribute(i) == given[i].name.type = "attribute"
  IN /\ \A i, j \in DOMAIN given : i < j /\ IsAttribute(j) => IsAttribute(i)
     /\ \A i \in DOMAIN parts : Tag(parts[i]) = "Open" => AttributesLead(Parts(Inside(parts[i])))

CarriesNothing(e) == IsLeaf(e) /\ e.text = NoText

(* An array of nulls is left without elements                                                *)
RECURSIVE ArraysCarry(_)
ArraysCarry(e) ==
  /\ \A i \in DOMAIN e.kids : ArraysCarry(e.kids[i])
  /\ \A run \in Range(Runs(e.kids)) : Len(run) > 1 => \E i \in DOMAIN run : ~CarriesNothing(run[i])

(* An element as XML. What carries nothing is not printed.                                    *)
RECURSIVE Printed(_)
Printed(e) ==
  LET printed == SelectSeq(e.kids, LAMBDA k : ~CarriesNothing(k))
  IN <<[Mark("Open", Name(e.name)) EXCEPT !.atts = e.atts]>>
       \o (IF e.text = NoText THEN <<>> ELSE <<Mark("Text", e.text)>>)
       \o FlattenSeq([i \in DOMAIN printed |-> Printed(printed[i])])
       \o <<Mark("Close", Name(e.name))>>

(* A void value in an array is left out, and there are strings only, when JSON is read back     *)
RECURSIVE ReadBack(_)
ReadBack(parts) ==
  LET kept == SelectSeq(parts, LAMBDA p : IsDict(parts) \/ p[1] # Void)
      Kept(p) == CASE Tag(p) = "Open" -> Enclosed(ReadBack(Parts(Inside(p))))
                   [] p[1].tag = "Value" /\ p[1] # Void -> <<Value("string", p[1].v)>>
                   [] OTHER -> p
  IN FlattenSeq([i \in DOMAIN kept |-> Kept(kept[i])])

-----------------------------------------------------------------------------
Read(as) == way = as /\ reading = "Ok"

(* XML is read as what it means, if no array is in the first element of another: what two      *)
(* passes find out about the beginning and the end of arrays fits together, on every level        *)
ReadAsDocument ==
  Read("xml") /\ ArraysFoundInOrder(doc) => ser = XmlMeaning(<<<<doc>>>>, withRoot)

(* What was read from XML or JSON without the root and is printed as XML with it is the document   *)
(* again, without the elements that carry nothing: a JSON document is converted to the XML         *)
(* document that stands for the same, each attribute in the tag of its element. Not so if the      *)
(* first pass fails, not for an array of nulls, for attributes of XML and for a text next to       *)
(* attributes, and not if another member of the object comes before an attribute, see              *)
(* AttributesInOpeningTags.                                                                        *)
Convertible ==
  \/ way = "xml" /\ doc.kids # <<>> /\ ArraysFoundInOrder(doc) /\ WithoutAttributes(doc)
  \/ way = "json" /\ ~IsLeaf(doc) /\ ArraysCarry(doc) /\ WithoutAttributedText(doc) /\ AttributesLead(Parts(ser))
PrintedIsDocument ==
  reading = "Ok" /\ ~withRoot /\ Convertible => ToXml(ser, doc.name) = [marks |-> Printed(doc), err |-> "Ok"]

(* What papuga_ValueVariant_toxml returns without an error is XML (valueVariant.h): closing tags       *)
(* have no attributes. It does not hold, an attribute may come after other members in JSON; it is here    *)
(* to show the case.                                                                                *)
AttributesInOpeningTags ==
  reading = "Ok" =>
    LET out == ToXml(ser, doc.name) IN \A i \in DOMAIN out.marks : out.marks[i].tag = "Close" => out.marks[i].atts = <<>>

(* A node that JSON would have more than MaxRecursionDepth levels below the members of the root      *)
NestedTooDeep(tokens) ==
  \E i \in DOMAIN tokens : tokens[i].tag # "Close" /\ Nesting(SubSeq(tokens, 1, i - 1)) > MaxRecursionDepth
ReadsBack(tokens) ==
  /\ Printable(tokens)
  /\ FromJson(ToJson(tokens), TRUE) =
       IF NestedTooDeep(tokens) THEN [ser |-> <<>>, err |-> "MaxRecursionDepthReached"]
       ELSE [ser |-> ReadBack(Parts(tokens)), err |-> "Ok"]

(* A serialization that a schema, an XML or a JSON document gave is the same after it was sent as     *)
(* JSON and read back, as the answer of one request handler to another is, but for the types of the     *)
(* values and the void elements of arrays. It has to be a structure with members. It is refused if      *)
(* a node lies too deep, and only then.                                                              *)
JsonIsReadBack ==
  /\ reading = "Ok" /\ ser # <<>> /\ IsDict(Parts(ser)) /\ (way = "xml" => ArraysFoundInOrder(doc))
       => ReadsBack(ser)
  /\ way = "schema" /\ Accepted /\ MappedPlain => ReadsBack(output)
=============================================================================
