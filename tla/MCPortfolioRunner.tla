------------------------- MODULE MCPortfolioRunner -------------------------
(***************************************************************************)
(* PortfolioRunner on a task with three plans, one of them beyond the      *)
(* bound of the portfolio, and portfolios built like those of the          *)
(* repository: with placeholders for the cost type and a final             *)
(* configuration or a builder, with cost type one hard-coded, with normal  *)
(* costs, and optimal.                                                     *)
(***************************************************************************)
EXTENDS PortfolioRunner

MCPlanCosts == {1, 3, 5}

Single(cost_type) == [anytime |-> FALSE, cost_type |-> cost_type]
Iterated(cost_type) == [anytime |-> TRUE, cost_type |-> cost_type]

Portfolio(list, optimal, final, builder) ==
  [CONFIGS |-> list, OPTIMAL |-> optimal, FINAL_CONFIG |-> final,
   FINAL_CONFIG_BUILDER |-> builder]

Adaptive == Single("placeholder")
Unit == Single("one")
Normal == Single("normal")

\* As seq_sat_fdss_1 and 2014, seq_sat_fdss_2, seq_sat_maidu and 2018, and
\* portfolios of iterated searches and with real costs.
MCPortfolios ==
  {Portfolio(<<Adaptive, Adaptive>>, FALSE, Iterated("placeholder"), NoConfig),
   Portfolio(<<Adaptive, Adaptive>>, FALSE, NoConfig, Iterated("placeholder")),
   Portfolio(<<Adaptive, Normal>>, FALSE, NoConfig, NoConfig),
   Portfolio(<<Unit, Normal, Unit>>, FALSE, NoConfig, NoConfig),
   Portfolio(<<Iterated("placeholder"), Normal>>, FALSE, NoConfig, NoConfig),
   Portfolio(<<Normal, Iterated("normal")>>, FALSE, NoConfig, NoConfig),
   Portfolio(<<Normal, Iterated("normal")>>, FALSE, Iterated("normal"), NoConfig),
   Portfolio(<<Normal, Iterated("normal")>>, TRUE, NoConfig, NoConfig)}

=============================================================================
