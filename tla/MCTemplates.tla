----------------------------- MODULE MCTemplates -----------------------------
(***************************************************************************)
(* The templates that share no state, side by side, as instances for TLC:  *)
(* a behaviour picks one of the modules, which then takes all its steps.   *)
(* The others stay as they started, in one of their initial states.        *)
(***************************************************************************)
EXTENDS FeedReader, MessageFeed, ReserveFeed, ContractBindings, KvStore, BlockTrigger,
        AaveLending

CONSTANTS f1, f2, a1, a2, eth, pol, t1, t2, t3

VARIABLE template \* the module whose behaviour this is

\* Two feeds, of a price and of a bundle: its aggregator has fewer fields at
\* zero decimals, so a wrong field or a wrong aggregator shows.  A feed that is
\* removed has none.
TwoFeeds == <<f1, f2>>
FirstAggregators == (f1 :> a1) @@ (f2 :> a2)
Decimals == (a1 :> <<1, 1, 1, 1>>) @@ (a2 :> <<0, 0, 1, 2>>)
Matrix == {<<1, 1, 1, 1>>, <<0, 0, 1, 2>>, <<>>}

\* Two transactions to a watched address in two spellings, and one elsewhere.
Receivers == (t1 :> "0xAb") @@ (t2 :> "0xab") @@ (t3 :> "none")
Spellings == ("0xAb" :> "0xab") @@ ("0xab" :> "0xab") @@ ("0xcd" :> "0xcd")

TemplateInit ==
  /\ template \in {"reader", "message", "reserve", "binding", "counter", "trigger", "lending"}
  /\ ReaderInit /\ MessageInit /\ ReserveInit /\ BindingInit /\ KvInit /\ TriggerInit
  /\ LendingInit
  /\ template # "reserve" => supply[eth] = Issued
  /\ template # "counter" => object = Absent

TemplateNext ==
  /\ UNCHANGED template
  /\ \/ /\ template = "reader" /\ ReaderNext
        /\ UNCHANGED <<messageVars, reserveVars, bindingVars, kvVars, triggerVars, lendingVars>>
     \/ /\ template = "message" /\ MessageNext
        /\ UNCHANGED <<readerVars, reserveVars, bindingVars, kvVars, triggerVars, lendingVars>>
     \/ /\ template = "reserve" /\ ReserveNext
        /\ UNCHANGED <<readerVars, messageVars, bindingVars, kvVars, triggerVars, lendingVars>>
     \/ /\ template = "binding" /\ BindingNext
        /\ UNCHANGED <<readerVars, messageVars, reserveVars, kvVars, triggerVars, lendingVars>>
     \/ /\ template = "counter" /\ KvNext
        /\ UNCHANGED <<readerVars, messageVars, reserveVars, bindingVars, triggerVars, lendingVars>>
     \/ /\ template = "trigger" /\ TriggerNext
        /\ UNCHANGED <<readerVars, messageVars, reserveVars, bindingVars, kvVars, lendingVars>>
     \/ /\ template = "lending" /\ LendingNext
        /\ UNCHANGED <<readerVars, messageVars, reserveVars, bindingVars, kvVars, triggerVars>>

TemplateSpec ==
  TemplateInit /\ [][TemplateNext]_<<template, readerVars, messageVars, reserveVars,
                                    bindingVars, kvVars, triggerVars, lendingVars>>

\* The types of the module that is running: above all the counter and the
\* books of the lending pool stay within what their executions can account for.
TemplateTypeOK ==
  /\ template = "reader" => ReaderTypeOK
  /\ template = "message" => MessageTypeOK
  /\ template = "reserve" => ReserveTypeOK
  /\ template = "binding" => BindingTypeOK
  /\ template = "counter" => KvTypeOK
  /\ template = "trigger" => TriggerTypeOK
  /\ template = "lending" => LendingTypeOK

=============================================================================
