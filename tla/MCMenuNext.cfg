CONSTANT TouchPoints <- MCTouchPoints
SPECIFICATION Spec
PROPERTY NextMoves
