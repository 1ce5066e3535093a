------------------------------- MODULE MCWaydim -------------------------------
EXTENDS Waydim

Entry(card, connector) == [card |-> card, connector |-> connector]

Edid == [p \in Panels |-> IF p = "laptop" THEN "A" ELSE "B"]

(* A laptop with two connectors, and two monitors that are alike.  Two     *)
(* backlights claim its panel.                                             *)
LaptopEntries ==
    {Entry(1, "eDP-1"), Entry(1, "DP-1"), Entry(1, "DP-2"),
     Entry(1, None), Entry(None, None)}
LaptopBus ==
    [c \in drm_connectors |->
        CASE c.connector = "eDP-1" -> "i2c-1"
          [] c.connector = "DP-1"  -> "i2c-2"
          [] c.connector = "DP-2"  -> "i2c-3"]

BuiltinPanel == CHOOSE c \in drm_connectors : c.connector = "eDP-1"
PanelParent == [b \in Backlights |-> BuiltinPanel]
PanelLinked == {BuiltinPanel}

=============================================================================
