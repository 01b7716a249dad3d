--------------------------- MODULE MCQuotaPilotApp ---------------------------
EXTENDS QuotaPilotApp

MCJourneys ==
    { [pages |-> {"overview", "route", "execute"}, goals |-> {"one"}, startup |-> FALSE],
      [pages |-> {"usage", "models"}, goals |-> {}, startup |-> TRUE],
      [pages |-> {"overview", "settings"}, goals |-> {}, startup |-> FALSE],
      [pages |-> {"overview", "route"}, goals |-> {"blank", "one", "two"}, startup |-> FALSE] }
=============================================================================
