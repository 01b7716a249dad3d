--------------------------- MODULE MCQuotaPilotGui ---------------------------
EXTENDS QuotaPilotGui

MCJourneys == { {"overview", "usage"}, {"route", "execute"},
                {"overview", "route"}, {"settings"} }

MCDefaults == [f \in Fields |-> 0]

\* The environment of the desktop application names a provider.
MCEnvironment == [p \in Processes |-> IF p = Gui THEN [provider |-> 1] ELSE EmptyFile]

\* No file, or one field by the user's hand.
MCFirstContents == {EmptyFile, [language |-> 1]}
=============================================================================
