--------------------------- MODULE MCWidgetSearch ---------------------------
(* Two owned applications and a foreign one.  The first has a window with a *)
(* panel, one match inside it and one beside it, and an offscreen window    *)
(* that publishes the first match again; the second application has a match *)
(* of its own.                                                              *)
EXTENDS WidgetSearch

CONSTANTS desktop, main, shell, second, win, offscreen, other, panel, a, b, none

MCApps     == {main, shell, second}
MCWindows  == {win, offscreen, other}
MCControls == {panel, a, b}

MCParents ==
  [n \in MCApps \union MCWindows \union MCControls |->
     CASE n \in MCApps -> {desktop}
       [] n \in {win, offscreen} -> {main}
       [] n = other -> {second}
       [] n = panel -> {win}
       [] n = a -> {panel, offscreen}
       [] n = b -> {win, other}]

Tree(desk, under, page, inPanel, off, elsewhere) ==
  [n \in {desktop} \union MCApps \union MCWindows \union MCControls |->
     CASE n = desktop -> desk
       [] n = main -> under
       [] n = second -> <<other>>
       [] n = win -> page
       [] n = panel -> inPanel
       [] n = offscreen -> off
       [] n = other -> elsewhere
       [] OTHER -> <<>>]

MCTrees ==
  {Tree(<<main, second>>, <<win, offscreen>>, <<panel>>, <<a>>, <<a>>, <<>>),
   Tree(<<shell, main, second>>, <<win>>, <<panel, b>>, <<a>>, <<>>, <<>>),
   Tree(<<second, main>>, <<win>>, <<panel>>, <<a>>, <<>>, <<b>>),
   Tree(<<shell, main, second>>, <<win>>, <<panel>>, <<>>, <<>>, <<b>>)}

MCModes == {"unique", "hinted", "witness"}

=============================================================================
